---- MODULE Spec2Model ----
(***************************************************************************)
(* playwright-route-tester: the project scanner (ProjectScanner.scan), its *)
(* framework adapters (NextjsFramework, ReactFramework, ExpressFramework,  *)
(* the generic fallback), the route classifiers and the path normalisers.  *)
(*                                                                         *)
(* Text is modelled as a sequence of one-character strings, so that the    *)
(* regular-expression rewrites, prefix tests and substring tests of the    *)
(* code are computed character by character as the code computes them.    *)
(* A route object is a record; `keys` is the set of properties the object  *)
(* literal of the code sets, the other fields hold a fixed filler value.   *)
(* Titles, notes and component names are not carried: no decision of the   *)
(* scanner reads them.                                                     *)
(***************************************************************************)
EXTENDS Integers, Sequences, FiniteSets, TLC

VARIABLES
  pc,          \* position of scan(): its awaits, "done" or "rejected"
  packageJson, \* this.packageJson of the ProjectScanner
  framework,   \* this.framework
  routes,      \* this.routes, the RouteSet
  adapter,     \* the state of the running adapter (its routes, its found-set)
  fsLog,       \* what the file system has returned to this scan so far
  result,      \* the value scan() resolved to
  nIn,         \* normaliser harness: the pieces of the input path
  nFn,         \* normaliser harness: the normaliser under test
  nOut,        \* normaliser harness: the successive outputs
  cBy,         \* classifier harness: the classifier under test
  cRoutes,     \* classifier harness: the RouteSet it has filled so far
  cLast,       \* classifier harness: the last route it was given, and where it went
  self,        \* the ProjectScanner instance whose task is running
  other,       \* the state of the instance whose task is suspended at an await
  tests,       \* the generated test project on disk, and the last add-route call
  first        \* the instance as its first scan() left it, before scan() is called again

scanVars == <<pc, packageJson, framework, routes, adapter, fsLog, result>>
normVars == <<nIn, nFn, nOut>>
classVars == <<cBy, cRoutes, cLast>>
taskVars == <<self, other>>
\* what a step of the running scan leaves alone
restVars == <<nIn, nFn, nOut, cBy, cRoutes, cLast, self, other, tests, first>>
vars == <<pc, packageJson, framework, routes, adapter, fsLog, result, nIn, nFn, nOut,
          cBy, cRoutes, cLast, self, other, tests, first>>

(***************************************************************************)
(* Bounds of the model.                                                    *)
(***************************************************************************)
MaxPieces == 3
MaxFiles == 2

(***************************************************************************)
(* Text.                                                                   *)
(***************************************************************************)
Lower == <<"a","b","c","d","e","f","g","h","i","j","k","l","m",
           "n","o","p","q","r","s","t","u","v","w","x","y","z">>
Upper == <<"A","B","C","D","E","F","G","H","I","J","K","L","M",
           "N","O","P","Q","R","S","T","U","V","W","X","Y","Z">>
Digits == {"0","1","2","3","4","5","6","7","8","9"}

\* \w of a JavaScript regular expression
WordChar(c) ==
  \/ \E i \in 1..26 : Lower[i] = c \/ Upper[i] = c
  \/ c \in Digits
  \/ c = "_"

UpperChar(c) ==
  IF \E k \in 1..26 : Lower[k] = c
  THEN Upper[CHOOSE k \in 1..26 : Lower[k] = c]
  ELSE c

LowerChar(c) ==
  IF \E k \in 1..26 : Upper[k] = c
  THEN Lower[CHOOSE k \in 1..26 : Upper[k] = c]
  ELSE c

RECURSIVE toUpperCase(_)
toUpperCase(s) ==
  IF s = <<>> THEN <<>> ELSE <<UpperChar(Head(s))>> \o toUpperCase(Tail(s))

RECURSIVE toLowerCase(_)
toLowerCase(s) ==
  IF s = <<>> THEN <<>> ELSE <<LowerChar(Head(s))>> \o toLowerCase(Tail(s))

startsWith(s, p) == Len(p) <= Len(s) /\ SubSeq(s, 1, Len(p)) = p

endsWith(s, p) == Len(p) <= Len(s) /\ SubSeq(s, Len(s) - Len(p) + 1, Len(s)) = p

includes(s, p) ==
  \E i \in 1..(Len(s) + 1) :
    i + Len(p) - 1 <= Len(s) /\ SubSeq(s, i, i + Len(p) - 1) = p

Drop(s, n) == SubSeq(s, n + 1, Len(s))

\* the number of consecutive \w characters of s from index i on
RECURSIVE WordRun(_, _)
WordRun(s, i) ==
  IF i <= Len(s) /\ WordChar(s[i]) THEN 1 + WordRun(s, i + 1) ELSE 0

\* s.replace(/\\/g, '/')
RECURSIVE BackslashesToSlashes(_)
BackslashesToSlashes(s) ==
  IF s = <<>> THEN <<>>
  ELSE <<IF Head(s) = "\\" THEN "/" ELSE Head(s)>> \o BackslashesToSlashes(Tail(s))

\* s.replace(/\/+/g, '/')
RECURSIVE CollapseSlashes(_)
CollapseSlashes(s) ==
  IF s = <<>> THEN <<>>
  ELSE IF Head(s) = "/" /\ Len(s) >= 2 /\ s[2] = "/" THEN CollapseSlashes(Tail(s))
  ELSE <<Head(s)>> \o CollapseSlashes(Tail(s))

\* s.replace(/\/$/, '')
StripTrailingSlash(s) ==
  IF s # <<>> /\ s[Len(s)] = "/" THEN SubSeq(s, 1, Len(s) - 1) ELSE s

\* s.replace(/\([^)]*\)/g, ''); /\(.*?\)/g rewrites the same text when it has no line break
RECURSIVE RemoveRouteGroups(_)
RemoveRouteGroups(s) ==
  IF s = <<>> THEN <<>>
  ELSE IF Head(s) = "(" /\ \E j \in 2..Len(s) : s[j] = ")"
       THEN LET j == CHOOSE j \in 2..Len(s) :
                       s[j] = ")" /\ \A k \in 2..(j - 1) : s[k] # ")"
            IN RemoveRouteGroups(Drop(s, j))
       ELSE <<Head(s)>> \o RemoveRouteGroups(Tail(s))

\* s.replace(/\[\.\.\.(\w+)\]/g, '*')
RECURSIVE ReplaceCatchAll(_)
ReplaceCatchAll(s) ==
  IF s = <<>> THEN <<>>
  ELSE LET n == WordRun(s, 5)
       IN IF /\ Len(s) >= 6
             /\ SubSeq(s, 1, 4) = <<"[", ".", ".", ".">>
             /\ n >= 1
             /\ 5 + n <= Len(s)
             /\ s[5 + n] = "]"
          THEN <<"*">> \o ReplaceCatchAll(Drop(s, 5 + n))
          ELSE <<Head(s)>> \o ReplaceCatchAll(Tail(s))

\* s.replace(/\[(\w+)\]/g, ':$1')
RECURSIVE ReplaceDynamic(_)
ReplaceDynamic(s) ==
  IF s = <<>> THEN <<>>
  ELSE LET n == WordRun(s, 2)
       IN IF /\ Head(s) = "["
             /\ n >= 1
             /\ 2 + n <= Len(s)
             /\ s[2 + n] = "]"
          THEN <<":">> \o SubSeq(s, 2, 1 + n) \o ReplaceDynamic(Drop(s, 2 + n))
          ELSE <<Head(s)>> \o ReplaceDynamic(Tail(s))

Extensions == { <<"j","s">>, <<"j","s","x">>, <<"t","s">>, <<"t","s","x">> }
PAGE == <<"p","a","g","e">>
ROUTE == <<"r","o","u","t","e">>
INDEX == <<"i","n","d","e","x">>

\* the file names (page|route)\.(js|jsx|ts|tsx)
PageOrRouteNames == { n \o <<".">> \o e : n \in {PAGE, ROUTE}, e \in Extensions }
\* the file names page\.(js|jsx|ts|tsx)
PageNames == { PAGE \o <<".">> \o e : e \in Extensions }

\* s.replace(/^(page|route)\.(js|jsx|ts|tsx)$/, '')
StripWholeFileName(s) == IF s \in PageOrRouteNames THEN <<>> ELSE s

\* s.replace(/\/(page|route)\.(js|jsx|ts|tsx)$/, '') for names = PageOrRouteNames,
\* s.replace(/\/page\.(js|jsx|ts|tsx)$/, '') for names = PageNames
StripFileNameSuffix(s, names) ==
  IF \E n \in names : endsWith(s, <<"/">> \o n)
  THEN LET n == CHOOSE n \in names : endsWith(s, <<"/">> \o n)
       IN SubSeq(s, 1, Len(s) - Len(n) - 1)
  ELSE s

\* s.replace(/\.(js|jsx|ts|tsx)$/, '')
StripExtension(s) ==
  IF \E e \in Extensions : endsWith(s, <<".">> \o e)
  THEN LET e == CHOOSE e \in Extensions : endsWith(s, <<".">> \o e)
       IN SubSeq(s, 1, Len(s) - Len(e) - 1)
  ELSE s

\* s.replace(/\/index$/, '')
StripIndexSuffix(s) ==
  IF endsWith(s, <<"/">> \o INDEX) THEN SubSeq(s, 1, Len(s) - 6) ELSE s

\* s.replace(/\$.*$/, ''): from the first '$' to the end (the text has no line break)
StripFromDollar(s) ==
  IF \E i \in 1..Len(s) : s[i] = "$"
  THEN LET i == CHOOSE i \in 1..Len(s) : s[i] = "$" /\ \A k \in 1..(i - 1) : s[k] # "$"
       IN SubSeq(s, 1, i - 1)
  ELSE s

\* s.replace(/\^/, ''): the first '^' only
StripFirstCaret(s) ==
  IF \E i \in 1..Len(s) : s[i] = "^"
  THEN LET i == CHOOSE i \in 1..Len(s) : s[i] = "^" /\ \A k \in 1..(i - 1) : s[k] # "^"
       IN SubSeq(s, 1, i - 1) \o Drop(s, i)
  ELSE s

(***************************************************************************)
(* The path normalisers.                                                   *)
(***************************************************************************)
\* NextjsFramework.convertAppRouterPathToUrl
Nextjs_convertAppRouterPathToUrl(filePath) ==
  LET u1 == BackslashesToSlashes(filePath)
      u2 == StripWholeFileName(u1)
      u3 == StripFileNameSuffix(u2, PageOrRouteNames)
      u4 == RemoveRouteGroups(u3)
      u5 == ReplaceCatchAll(u4)
      u6 == ReplaceDynamic(u5)
      u7 == CollapseSlashes(u6)
  IN IF u7 = <<>> \/ u7 = <<"/">> THEN <<"/">>
     ELSE LET u8 == IF startsWith(u7, <<"/">>) THEN u7 ELSE <<"/">> \o u7
          IN IF u8 # <<"/">> /\ endsWith(u8, <<"/">>)
             THEN SubSeq(u8, 1, Len(u8) - 1)
             ELSE u8

\* NextjsFramework.convertPagesRouterPathToUrl: '/' + (...) || '/', the
\* concatenation binds tighter than ||, and '/' + x is never empty
Nextjs_convertPagesRouterPathToUrl(filePath) ==
  LET n1 == BackslashesToSlashes(filePath)
      n2 == StripExtension(n1)
      n3 == StripIndexSuffix(n2)
      n4 == ReplaceCatchAll(n3)
      n5 == ReplaceDynamic(n4)
      n6 == CollapseSlashes(n5)
      n7 == StripTrailingSlash(n6)
      url == <<"/">> \o n7
  IN IF url # <<>> THEN url ELSE <<"/">>

\* NextjsFramework.convertAppRouterPathToUrl as src/core/frameworks/nextjs.js has
\* it: '/' + (...) || '/', the '/' is put in front after the slashes are collapsed
NextjsSrc_convertAppRouterPathToUrl(filePath) ==
  LET n1 == StripFileNameSuffix(filePath, PageOrRouteNames)
      n2 == RemoveRouteGroups(n1)
      n3 == ReplaceCatchAll(n2)
      n4 == ReplaceDynamic(n3)
      n5 == CollapseSlashes(n4)
      n6 == StripTrailingSlash(n5)
      url == <<"/">> \o n6
  IN IF url # <<>> THEN url ELSE <<"/">>

\* NextjsFramework.convertPagesRouterPathToUrl as src/core/frameworks/nextjs.js has it
NextjsSrc_convertPagesRouterPathToUrl(filePath) ==
  LET n1 == StripExtension(filePath)
      n2 == StripIndexSuffix(n1)
      n3 == ReplaceCatchAll(n2)
      n4 == ReplaceDynamic(n3)
      n5 == CollapseSlashes(n4)
      n6 == StripTrailingSlash(n5)
      url == <<"/">> \o n6
  IN IF url # <<>> THEN url ELSE <<"/">>

\* ExpressFramework.normalizeExpressRoutePath; the empty text stands for null
Express_normalizeExpressRoutePath(routePath) ==
  IF routePath = <<>> THEN <<>>
  ELSE LET e1 == StripFromDollar(routePath)
           e2 == StripFirstCaret(e1)
           e3 == CollapseSlashes(e2)
           e4 == IF startsWith(e3, <<"/">>) THEN e3 ELSE <<"/">> \o e3
           e5 == IF e4 # <<"/">> /\ endsWith(e4, <<"/">>)
                 THEN SubSeq(e4, 1, Len(e4) - 1)
                 ELSE e4
       IN IF e5 = <<>> \/ e5 = <<"/", "/">> THEN <<"/">> ELSE e5

\* ProjectScanner.convertAppRouterPathToUrl
Scanner_convertAppRouterPathToUrl(filePath) ==
  LET n1 == BackslashesToSlashes(filePath)
      n2 == StripFileNameSuffix(n1, PageNames)
      n3 == RemoveRouteGroups(n2)
      n4 == ReplaceCatchAll(n3)
      n5 == ReplaceDynamic(n4)
      url == <<"/">> \o n5
      u2 == StripTrailingSlash(CollapseSlashes(url))
  IN IF u2 # <<>> THEN u2 ELSE <<"/">>

\* ProjectScanner.convertPagesRouterPathToUrl
Scanner_convertPagesRouterPathToUrl(filePath) ==
  LET n1 == BackslashesToSlashes(filePath)
      n2 == StripExtension(n1)
      n3 == StripIndexSuffix(n2)
      n4 == ReplaceCatchAll(n3)
      n5 == ReplaceDynamic(n4)
      url == <<"/">> \o n5
      u2 == StripTrailingSlash(CollapseSlashes(url))
  IN IF u2 # <<>> THEN u2 ELSE <<"/">>

(***************************************************************************)
(* Route objects and the RouteSet.                                         *)
(***************************************************************************)
NoText == <<>>

EmptyRoutes == [public |-> <<>>, protected |-> <<>>, api |-> <<>>]

GET == <<"G","E","T">>
POST == <<"P","O","S","T">>
M_USE == <<"U","S","E">>
LOGIN == <<"/","l","o","g","i","n">>
ROOT == <<"/">>

\* an object literal { url, method?, file?, type? }: keys lists its properties
RouteObject(url, method, file, type, keys) ==
  [url |-> url, method |-> method, file |-> file, type |-> type, keys |-> keys,
   requiresAuth |-> FALSE, expectedStatus |-> 0, expectedRedirect |-> NoText]

\* { ...route, requiresAuth: true, expectedRedirect: redirect }
WithRedirect(route, redirect) ==
  [route EXCEPT !.keys = @ \cup {"requiresAuth", "expectedRedirect"},
                !.requiresAuth = TRUE,
                !.expectedRedirect = redirect]

\* { ...route, expectedStatus: status }
WithStatus(route, status) ==
  [route EXCEPT !.keys = @ \cup {"expectedStatus"}, !.expectedStatus = status]

\* { ...route, requiresAuth: auth, expectedStatus: status }
WithAuthStatus(route, auth, status) ==
  [route EXCEPT !.keys = @ \cup {"requiresAuth", "expectedStatus"},
                !.requiresAuth = auth,
                !.expectedStatus = status]

Push(rs, bucket, route) == [rs EXCEPT ![bucket] = Append(@, route)]

Buckets == {"public", "protected", "api"}

\* routes.public.length + routes.protected.length + routes.api.length
getTotalRoutes(rs) == Len(rs.public) + Len(rs.protected) + Len(rs.api)

\* the name the k-th file of a glob's enumeration goes by
FileName(k) == <<"f", (<<"1","2","3","4","5","6","7","8","9">>)[k]>>

(***************************************************************************)
(* ExpressFramework.                                                       *)
(***************************************************************************)
Express_apiPatterns ==
  { <<"/","a","p","i","/">>, <<"/","v","1","/">>, <<"/","v","2","/">>, <<"/","g","r","a","p","h","q","l">>, <<"/","w","e","b","h","o","o","k">>,
    <<"/","r","e","s","t","/">>, <<"/","s","e","r","v","i","c","e","/">>, <<"/","d","a","t","a","/">> }

Express_protectedPatterns ==
  { <<"/","a","d","m","i","n">>, <<"/","d","a","s","h","b","o","a","r","d">>, <<"/","p","r","o","f","i","l","e">>, <<"/","s","e","t","t","i","n","g","s">>, <<"/","a","c","c","o","u","n","t">>,
    <<"/","u","s","e","r">>, <<"/","m","a","n","a","g","e","m","e","n","t">>, <<"/","p","r","i","v","a","t","e">>, <<"/","s","e","c","u","r","e">>, <<"/","a","u","t","h">> }

Express_publicApiPatterns == { <<"/","a","p","i","/","h","e","a","l","t","h">>, <<"/","a","p","i","/","s","t","a","t","u","s">>, <<"/","a","p","i","/","p","u","b","l","i","c">> }

Express_isApiEndpoint(url) == \E p \in Express_apiPatterns : includes(url, p)

Express_isProtectedRoute(url) ==
  \E p \in Express_protectedPatterns : includes(toLowerCase(url), toLowerCase(p))

Express_requiresAuthentication(url) ==
  IF startsWith(url, <<"/","a","p","i">>)
  THEN ~ \E p \in Express_publicApiPatterns : includes(url, p)
  ELSE Express_isProtectedRoute(url)

\* categorizeExpressRoute with the protected test ahead of the API test: the
\* order C6 excludes
Express_categorizeProtectedFirst(route, rs) ==
  LET isApiRoute == \/ startsWith(route.url, <<"/","a","p","i">>)
                    \/ route.method # GET
                    \/ Express_isApiEndpoint(route.url)
  IN IF Express_isProtectedRoute(route.url)
     THEN Push(rs, "protected", WithRedirect(route, LOGIN))
     ELSE IF isApiRoute
          THEN Push(rs, "api",
                    WithAuthStatus(route,
                                   Express_requiresAuthentication(route.url),
                                   IF Express_requiresAuthentication(route.url) THEN 401 ELSE 200))
          ELSE Push(rs, "public", WithStatus(route, 200))

\* categorizeExpressRoute with a protected route pushed twice, into protected
\* and into public: the double classification C7 excludes
Express_categorizeTwice(route, rs) ==
  LET isApiRoute == \/ startsWith(route.url, <<"/","a","p","i">>)
                    \/ route.method # GET
                    \/ Express_isApiEndpoint(route.url)
  IN IF isApiRoute
     THEN Push(rs, "api",
               WithAuthStatus(route,
                              Express_requiresAuthentication(route.url),
                              IF Express_requiresAuthentication(route.url) THEN 401 ELSE 200))
     ELSE IF Express_isProtectedRoute(route.url)
          THEN Push(Push(rs, "protected", WithRedirect(route, LOGIN)),
                    "public", WithStatus(route, 200))
          ELSE Push(rs, "public", WithStatus(route, 200))

Express_categorizeExpressRoute(route, rs) ==
  LET isApiRoute == \/ startsWith(route.url, <<"/","a","p","i">>)
                    \/ route.method # GET
                    \/ Express_isApiEndpoint(route.url)
  IN IF isApiRoute
     THEN Push(rs, "api",
               WithAuthStatus(route,
                              Express_requiresAuthentication(route.url),
                              IF Express_requiresAuthentication(route.url) THEN 401 ELSE 200))
     ELSE IF Express_isProtectedRoute(route.url)
          THEN Push(rs, "protected", WithRedirect(route, LOGIN))
          ELSE Push(rs, "public", WithStatus(route, 200))

Express_addDefaultExpressRoutes(rs) ==
  LET pub(u) == WithStatus(RouteObject(u, GET, NoText, "", {"url", "title", "method"}), 200)
      prot(u) == WithRedirect(RouteObject(u, GET, NoText, "", {"url", "title", "method"}), LOGIN)
      api(u, m, a, s) ==
        WithAuthStatus(RouteObject(u, m, NoText, "", {"url", "title", "method"}), a, s)
  IN [public |-> rs.public \o << pub(ROOT), pub(<<"/","a","b","o","u","t">>), pub(<<"/","c","o","n","t","a","c","t">>) >>,
      protected |-> rs.protected \o << prot(<<"/","d","a","s","h","b","o","a","r","d">>), prot(<<"/","a","d","m","i","n">>) >>,
      api |-> rs.api \o << api(<<"/","a","p","i","/","u","s","e","r","s">>, GET, TRUE, 401),
                           api(<<"/","a","p","i","/","p","o","s","t","s">>, GET, TRUE, 401),
                           api(<<"/","a","p","i","/","a","u","t","h","/","l","o","g","i","n">>, POST, FALSE, 200) >>]

\* The text of a source file is a sequence of registration statements:
\*   form "call":  recv.method('path', handler)
\*   form "route": recv.route('path').method(handler)
Call(recv, method, path) == [form |-> "call", recv |-> recv, method |-> method, path |-> path]
Chain(recv, path, method) == [form |-> "route", recv |-> recv, method |-> method, path |-> path]

Express_callMethods ==
  { <<"g","e","t">>, <<"p","o","s","t">>, <<"p","u","t">>, <<"p","a","t","c","h">>, <<"d","e","l","e","t","e">>, <<"u","s","e">>, <<"a","l","l">> }
Express_chainMethods == Express_callMethods \ { <<"u","s","e">> }
Express_appNames == { <<"a","p","p">>, <<"s","e","r","v","e","r">>, <<"r","o","u","t","e","r">>, <<"e","x","p","r","e","s","s">> }

\* What one pattern of routePatterns matches in one statement: the match arrays, as
\* exec returns them (index 1 here is match[0], the matched text, left empty).
Express_patternMatches(k, st) ==
  CASE k = 1 ->
         \* (?:app|server|router|express).(method)('(path)'
         IF st.form = "call" /\ toLowerCase(st.recv) \in Express_appNames
                             /\ toLowerCase(st.method) \in Express_callMethods
         THEN << <<NoText, st.method, st.path>> >> ELSE <<>>
    [] k = 2 ->
         \* (\w+).(method)('(path)'
         IF st.form = "call" /\ toLowerCase(st.method) \in Express_callMethods
         THEN << <<NoText, st.recv, st.method, st.path>> >> ELSE <<>>
    [] k = 3 ->
         \* .route('(path)').(method)
         IF st.form = "route" /\ toLowerCase(st.method) \in Express_chainMethods
         THEN << <<NoText, st.path, st.method>> >> ELSE <<>>
    [] k = 4 ->
         \* route('(path)')
         IF st.form = "route" THEN << <<NoText, st.path>> >> ELSE <<>>
    [] k = 5 ->
         \* (?:app|server).use('(path)',
         IF st.form = "call" /\ toLowerCase(st.recv) \in { <<"a","p","p">>, <<"s","e","r","v","e","r">> }
                             /\ toLowerCase(st.method) = <<"u","s","e">>
         THEN << <<NoText, st.path>> >> ELSE <<>>

\* every match of pattern k in the content, in text order (the exec loop)
RECURSIVE Express_execAll(_, _)
Express_execAll(k, content) ==
  IF content = <<>> THEN <<>>
  ELSE Express_patternMatches(k, Head(content)) \o Express_execAll(k, Tail(content))

\* the body of the while loop for one match; acc = [routes, foundRoutes]
Express_onMatch(acc, match, filename) ==
  LET method0 == IF Len(match) = 4 THEN match[3]
                 ELSE IF Len(match) = 3
                      THEN (IF match[3] # NoText THEN match[3] ELSE match[2])
                      ELSE NoText
      routePath == IF Len(match) = 4 THEN match[4]
                   ELSE IF Len(match) = 3
                        THEN (IF match[3] # NoText THEN match[2] ELSE match[3])
                        ELSE NoText
  IN IF routePath = NoText \/ method0 = NoText THEN acc
     ELSE LET method == toUpperCase(method0)
              normalizedPath == Express_normalizeExpressRoutePath(routePath)
              routeKey == <<method, normalizedPath>>
          IN IF \/ normalizedPath = NoText
                \/ (method = M_USE /\ ~ startsWith(routePath, <<"/","a","p","i">>)
                                 /\ ~ includes(routePath, <<"/">>))
             THEN acc
             ELSE IF routeKey \in acc.foundRoutes THEN acc
             ELSE [routes |-> Append(acc.routes,
                                RouteObject(normalizedPath,
                                            IF method = M_USE THEN GET ELSE method,
                                            filename, "",
                                            {"url", "method", "title", "file", "framework"})),
                   foundRoutes |-> acc.foundRoutes \cup {routeKey}]

RECURSIVE Express_onMatches(_, _, _)
Express_onMatches(acc, matches, filename) ==
  IF matches = <<>> THEN acc
  ELSE Express_onMatches(Express_onMatch(acc, Head(matches), filename), Tail(matches), filename)

RECURSIVE Express_forPatterns(_, _, _, _)
Express_forPatterns(acc, k, content, filename) ==
  IF k > 5 THEN acc
  ELSE Express_forPatterns(Express_onMatches(acc, Express_execAll(k, content), filename),
                           k + 1, content, filename)

\* ExpressFramework.extractExpressRoutes
Express_extractExpressRoutes(content, filename) ==
  Express_forPatterns([routes |-> <<>>, foundRoutes |-> {}], 1, content, filename).routes

\* for (const route of extractedRoutes) this.categorizeExpressRoute(route, routes)
RECURSIVE Express_categorizeAll(_, _)
Express_categorizeAll(extracted, rs) ==
  IF extracted = <<>> THEN rs
  ELSE Express_categorizeAll(Tail(extracted), Express_categorizeExpressRoute(Head(extracted), rs))

(***************************************************************************)
(* ReactFramework.                                                         *)
(***************************************************************************)
React_protectedPatterns ==
  { <<"/","d","a","s","h","b","o","a","r","d">>, <<"/","a","d","m","i","n">>, <<"/","p","r","o","f","i","l","e">>, <<"/","s","e","t","t","i","n","g","s">>, <<"/","a","c","c","o","u","n","t">>,
    <<"/","u","s","e","r">>, <<"/","m","a","n","a","g","e","m","e","n","t">>, <<"/","p","r","i","v","a","t","e">>, <<"/","s","e","c","u","r","e">>, <<"/","p","r","o","t","e","c","t","e","d">> }

React_isProtectedRoute(url) ==
  \E p \in React_protectedPatterns : includes(toLowerCase(url), toLowerCase(p))

React_categorizeRoute(route, rs) ==
  IF React_isProtectedRoute(route.url)
  THEN Push(rs, "protected", WithRedirect(route, LOGIN))
  ELSE Push(rs, "public", WithStatus(route, 200))

React_addDefaultRoutes(rs) ==
  LET pub(u) == WithStatus(RouteObject(u, NoText, NoText, "", {"url", "title"}), 200)
      prot(u) == WithRedirect(RouteObject(u, NoText, NoText, "", {"url", "title"}), LOGIN)
      api(u) == WithAuthStatus(RouteObject(u, GET, NoText, "", {"url", "title", "method"}),
                               TRUE, 401)
  IN [public |-> rs.public \o << pub(ROOT), pub(<<"/","a","b","o","u","t">>), pub(<<"/","c","o","n","t","a","c","t">>) >>,
      protected |-> rs.protected
                      \o << prot(<<"/","d","a","s","h","b","o","a","r","d">>), prot(<<"/","p","r","o","f","i","l","e">>), prot(<<"/","s","e","t","t","i","n","g","s">>) >>,
      api |-> rs.api \o << api(<<"/","a","p","i","/","u","s","e","r","s">>), api(<<"/","a","p","i","/","p","r","o","d","u","c","t","s">>) >>]

\* The text of a React source file is a sequence of route declarations:
\*   form "element": <Route path="p" element={<X />} />
\*   form "object":  { path: "p", element: <X /> }
Element(path) == [form |-> "element", path |-> path]
Object(path) == [form |-> "object", path |-> path]

\* the paths pattern k of routePatterns captures in one declaration
React_patternMatches(k, st) ==
  CASE k \in {1, 2} -> IF st.form = "element" THEN <<st.path>> ELSE <<>>
    [] k \in {3, 4} -> IF st.form = "object" THEN <<st.path>> ELSE <<>>

RECURSIVE React_execAll(_, _)
React_execAll(k, content) ==
  IF content = <<>> THEN <<>>
  ELSE React_patternMatches(k, Head(content)) \o React_execAll(k, Tail(content))

RECURSIVE React_pushAll(_, _)
React_pushAll(paths, filename) ==
  IF paths = <<>> THEN <<>>
  ELSE << RouteObject(Head(paths), NoText, filename, "", {"url", "title", "file", "component"}) >>
         \o React_pushAll(Tail(paths), filename)

\* ReactFramework.extractRoutesFromFile
React_extractRoutesFromFile(content, filename) ==
  React_pushAll(React_execAll(1, content) \o React_execAll(2, content)
                  \o React_execAll(3, content) \o React_execAll(4, content),
                filename)

\* extractedRoutes.forEach(...) of scanRouterRoutes; acc = [routes, foundRoutes]
RECURSIVE React_forEachExtracted(_, _)
React_forEachExtracted(extracted, acc) ==
  IF extracted = <<>> THEN acc
  ELSE LET route == Head(extracted)
       IN React_forEachExtracted(
            Tail(extracted),
            IF route.url \in acc.foundRoutes THEN acc
            ELSE [routes |-> React_categorizeRoute(route, acc.routes),
                  foundRoutes |-> acc.foundRoutes \cup {route.url}])

(***************************************************************************)
(* NextjsFramework.                                                        *)
(***************************************************************************)
Nextjs_protectedPatterns ==
  { <<"/","d","a","s","h","b","o","a","r","d">>, <<"/","a","d","m","i","n">>, <<"/","p","r","o","f","i","l","e">>, <<"/","s","e","t","t","i","n","g","s">>, <<"/","a","c","c","o","u","n","t">>,
    <<"/","u","s","e","r">>, <<"/","m","a","n","a","g","e","m","e","n","t">>, <<"/","p","r","i","v","a","t","e">>, <<"/","s","e","c","u","r","e">>, <<"/","a","u","t","h">> }

Nextjs_isProtectedRoute(url) ==
  \E p \in Nextjs_protectedPatterns : includes(toLowerCase(url), toLowerCase(p))

\* the page loop of scanAppRouter and the page branch of scanPagesRouter
Nextjs_pushPage(rs, routePath, file, keys) ==
  LET route == RouteObject(routePath, NoText, file, "page", keys)
  IN IF Nextjs_isProtectedRoute(routePath)
     THEN Push(rs, "protected", WithRedirect(route, LOGIN))
     ELSE Push(rs, "public", WithStatus(route, 200))

\* the route-file loop of scanAppRouter and the api branch of scanPagesRouter
Nextjs_pushApi(rs, routePath, file, keys) ==
  Push(rs, "api", WithAuthStatus(RouteObject(routePath, GET, file, "api", keys), TRUE, 401))

\* The repository holds NextjsFramework twice, in src/core/frameworks/nextjs.js
\* and in a second file; they differ in the two normalisers and in the
\* framework property of the routes. Either may be the one the scanner imports.
NextjsCopies == {"nextjs.js", "part_003"}

Nextjs_appUrl(copy, file) ==
  IF copy = "part_003" THEN Nextjs_convertAppRouterPathToUrl(file)
  ELSE NextjsSrc_convertAppRouterPathToUrl(file)

Nextjs_pagesUrl(copy, file) ==
  IF copy = "part_003" THEN Nextjs_convertPagesRouterPathToUrl(file)
  ELSE NextjsSrc_convertPagesRouterPathToUrl(file)

\* the properties of an app-router route object beside those of every route
Nextjs_appKeys(copy) == IF copy = "part_003" THEN {"framework"} ELSE {}

RECURSIVE Nextjs_appPages(_, _, _)
Nextjs_appPages(copy, rs, pageFiles) ==
  IF pageFiles = <<>> THEN rs
  ELSE Nextjs_appPages(
         copy,
         Nextjs_pushPage(rs, Nextjs_appUrl(copy, Head(pageFiles)),
                         <<"a","p","p","/">> \o Head(pageFiles),
                         {"url", "title", "file", "type"} \cup Nextjs_appKeys(copy)),
         Tail(pageFiles))

RECURSIVE Nextjs_appRoutes(_, _, _)
Nextjs_appRoutes(copy, rs, routeFiles) ==
  IF routeFiles = <<>> THEN rs
  ELSE Nextjs_appRoutes(
         copy,
         Nextjs_pushApi(rs, Nextjs_appUrl(copy, Head(routeFiles)),
                        <<"a","p","p","/">> \o Head(routeFiles),
                        {"url", "title", "method", "file", "type"} \cup Nextjs_appKeys(copy)),
         Tail(routeFiles))

\* NextjsFramework.scanAppRouter, given what its two globs return
Nextjs_scanAppRouter(copy, rs, pageFiles, routeFiles) ==
  Nextjs_appRoutes(copy, Nextjs_appPages(copy, rs, pageFiles), routeFiles)

\* NextjsFramework.scanPagesRouter, given what its glob returns
RECURSIVE Nextjs_scanPagesRouter(_, _, _)
Nextjs_scanPagesRouter(copy, rs, pageFiles) ==
  IF pageFiles = <<>> THEN rs
  ELSE LET file == Head(pageFiles)
           routePath == Nextjs_pagesUrl(copy, file)
       IN Nextjs_scanPagesRouter(
            copy,
            IF startsWith(file, <<"a","p","i","/">>)
            THEN Nextjs_pushApi(rs, routePath, <<"p","a","g","e","s","/">> \o file,
                                {"url", "title", "method", "file", "type"})
            ELSE Nextjs_pushPage(rs, routePath, <<"p","a","g","e","s","/">> \o file,
                                 {"url", "title", "file", "type"}),
            Tail(pageFiles))

(***************************************************************************)
(* ProjectScanner: the generic fallback and the classifier of its own.     *)
(***************************************************************************)
Scanner_protectedPatterns ==
  { <<"/","d","a","s","h","b","o","a","r","d">>, <<"/","a","d","m","i","n">>, <<"/","p","r","o","f","i","l","e">>, <<"/","s","e","t","t","i","n","g","s">>, <<"/","a","c","c","o","u","n","t">>,
    <<"/","u","s","e","r">>, <<"/","m","a","n","a","g","e","m","e","n","t">>, <<"/","p","r","i","v","a","t","e">>, <<"/","s","e","c","u","r","e">> }

Scanner_isProtectedRoute(route) ==
  \E p \in Scanner_protectedPatterns : includes(toLowerCase(route.url), toLowerCase(p))

Scanner_commonLoginUrls == { <<"/","l","o","g","i","n">>, <<"/","s","i","g","n","i","n">>, <<"/","a","u","t","h">>, <<"/","a","u","t","h","e","n","t","i","c","a","t","e">> }

\* the first route of list whose url includes a common login url, or none
RECURSIVE FirstLoginRoute(_)
FirstLoginRoute(list) ==
  IF list = <<>> THEN NoText
  ELSE IF \E l \in Scanner_commonLoginUrls : includes(Head(list).url, l)
       THEN Head(list).url
       ELSE FirstLoginRoute(Tail(list))

\* detectLoginUrl, had it gone through the api bucket as well
Scanner_detectLoginUrlAllBuckets(rs) ==
  IF FirstLoginRoute(rs.public) # NoText THEN FirstLoginRoute(rs.public)
  ELSE IF FirstLoginRoute(rs.protected) # NoText THEN FirstLoginRoute(rs.protected)
  ELSE IF FirstLoginRoute(rs.api) # NoText THEN FirstLoginRoute(rs.api)
  ELSE LOGIN

\* ProjectScanner.detectLoginUrl over this.routes = rs
Scanner_detectLoginUrl(rs) ==
  IF FirstLoginRoute(rs.public) # NoText THEN FirstLoginRoute(rs.public)
  ELSE IF FirstLoginRoute(rs.protected) # NoText THEN FirstLoginRoute(rs.protected)
  ELSE LOGIN

\* ProjectScanner.categorizeRoutes(list) on this.routes = rs
RECURSIVE Scanner_categorizeRoutes(_, _)
Scanner_categorizeRoutes(list, rs) ==
  IF list = <<>> THEN rs
  ELSE LET route == Head(list)
       IN Scanner_categorizeRoutes(
            Tail(list),
            IF Scanner_isProtectedRoute(route)
            THEN Push(rs, "protected", WithRedirect(route, Scanner_detectLoginUrl(rs)))
            ELSE Push(rs, "public", WithStatus(route, 200)))

\* s.replace(/\.html$/, '')
StripHtml(s) ==
  IF endsWith(s, <<".","h","t","m","l">>) THEN SubSeq(s, 1, Len(s) - 5) ELSE s

\* s.replace(/^.*\/pages\//, ''): through the last "/pages/"
StripThroughPagesDir(s) ==
  LET d == <<"/","p","a","g","e","s","/">>
      at(i) == i + 6 <= Len(s) /\ SubSeq(s, i, i + 6) = d
  IN IF \E i \in 1..Len(s) : at(i)
     THEN LET i == CHOOSE i \in 1..Len(s) : at(i) /\ \A k \in (i + 1)..Len(s) : ~ at(k)
          IN Drop(s, i + 6)
     ELSE s

\* the html loop of scanGenericRoutes
RECURSIVE Scanner_htmlRoutes(_)
Scanner_htmlRoutes(htmlFiles) ==
  IF htmlFiles = <<>> THEN <<>>
  ELSE LET file == Head(htmlFiles)
           routePath == ROOT \o StripIndexSuffix(StripHtml(file))
       IN << RouteObject(IF routePath = NoText THEN ROOT ELSE routePath, NoText, file,
                         "static", {"url", "title", "file", "type"}) >>
            \o Scanner_htmlRoutes(Tail(htmlFiles))

\* the component loop of scanGenericRoutes
RECURSIVE Scanner_componentRoutes(_)
Scanner_componentRoutes(componentFiles) ==
  IF componentFiles = <<>> THEN <<>>
  ELSE LET file == Head(componentFiles)
           routePath == ROOT \o StripIndexSuffix(StripExtension(StripThroughPagesDir(file)))
       IN << RouteObject(IF routePath = NoText THEN ROOT ELSE routePath, NoText, file,
                         "component", {"url", "title", "file", "type"}) >>
            \o Scanner_componentRoutes(Tail(componentFiles))

\* the routes array scanGenericRoutes hands to categorizeRoutes; thrown says which
\* glob, if any, threw into the catch block
Scanner_genericList(htmlFiles, componentFiles, thrown) ==
  LET home(type) == RouteObject(ROOT, NoText, NoText, type, {"url", "title", "type", "note"})
  IN CASE thrown = "html" -> << home("fallback") >>
       [] thrown = "component" -> Append(Scanner_htmlRoutes(htmlFiles), home("fallback"))
       [] OTHER ->
            LET found == Scanner_htmlRoutes(htmlFiles) \o Scanner_componentRoutes(componentFiles)
            IN IF Len(found) = 0 THEN << home("default") >> ELSE found

\* the placeholder scanGenericRoutes pushes when an api directory exists
Scanner_healthPlaceholder ==
  RouteObject(<<"/","a","p","i","/","h","e","a","l","t","h">>, GET, NoText, "detected", {"url", "title", "method", "type", "note"})

\* ProjectScanner.scanGenericRoutes on this.routes = rs
Scanner_scanGenericRoutes(rs, htmlFiles, componentFiles, thrown, hasApiDirectory) ==
  LET rs2 == Scanner_categorizeRoutes(Scanner_genericList(htmlFiles, componentFiles, thrown), rs)
  IN IF hasApiDirectory THEN Push(rs2, "api", Scanner_healthPlaceholder) ELSE rs2

(***************************************************************************)
(* ProjectScanner: framework detection.                                    *)
(***************************************************************************)
\* One entry of dependencies or devDependencies: the package name and the
\* version text; the entries of a section are kept in the order the file has them
Dep(name, version) == <<name, version>>

\* a version text that is truthy, and the empty text, which is not
V1 == <<"1">>

NoManifest ==
  [present |-> FALSE, dependencies |-> <<>>, devDependencies |-> <<>>,
   hasScripts |-> FALSE, dev |-> NoText, start |-> NoText]

Manifest(dependencies, devDependencies, hasScripts, dev, start) ==
  [present |-> TRUE, dependencies |-> dependencies, devDependencies |-> devDependencies,
   hasScripts |-> hasScripts, dev |-> dev, start |-> start]

\* the names a section declares
DepNames(section) == { section[i][1] : i \in DOMAIN section }

\* section[name]
DepVersion(section, name) ==
  section[CHOOSE i \in DOMAIN section : section[i][1] = name][2]

\* { ...dependencies, ...devDependencies }[name]: the later spread wins
SpreadVersion(pj, name) ==
  IF name \in DepNames(pj.devDependencies) THEN DepVersion(pj.devDependencies, name)
  ELSE DepVersion(pj.dependencies, name)

\* the names n for which deps[n] is truthy: present, and not the empty text
Scanner_deps(pj) ==
  { n \in DepNames(pj.dependencies) \cup DepNames(pj.devDependencies) :
      SpreadVersion(pj, n) # NoText }

\* the package.json files a scanned project may hold (an absent script is the
\* empty text)
Manifests ==
  { Manifest(<<>>, <<>>, FALSE, NoText, NoText),
    Manifest(<<Dep("next", V1), Dep("react", V1)>>, <<>>, TRUE, <<"n","e","x","t"," ","d","e","v">>, NoText),
    Manifest(<<Dep("react", V1), Dep("react-router-dom", V1)>>, <<>>, TRUE, NoText,
             <<"r","e","a","c","t","-","s","c","r","i","p","t","s"," ","s","t","a","r","t">>),
    Manifest(<<Dep("express", V1)>>, <<>>, TRUE, NoText, <<"n","o","d","e"," ","s","e","r","v","e","r",".","j","s">>),
    Manifest(<<Dep("express", V1)>>, <<Dep("react", V1)>>, TRUE, <<"P","O","R","T","=","8","0","8","0"," ","n","o","d","e"," ",".">>, NoText),
    Manifest(<<Dep("react", V1)>>, <<>>, FALSE, NoText, NoText),
    Manifest(<<>>, <<Dep("vue", V1)>>, TRUE, <<"v","i","t","e"," ","-","-","p","o","r","t"," ","5","1","7","3">>, NoText),
    Manifest(<<>>, <<Dep("vue", V1)>>, TRUE, <<"v","i","t","e">>, <<"s","e","r","v","e"," ","-","l"," ","8","0","8","0">>),
    Manifest(<<Dep("vue", V1)>>, <<>>, TRUE, <<"v","i","t","e"," ","-","-","p","o","r","t"," ","5","1","7","3"," ","-","-","p","r","o","x","y"," ","8","0","8","0">>, NoText) }

NoFramework == [name |-> "null", hasAppRouter |-> FALSE, hasPagesRouter |-> FALSE]

Framework(name) == [name |-> name, hasAppRouter |-> FALSE, hasPagesRouter |-> FALSE]

\* detectStaticFramework, had it looked for the directories app, src and public
Scanner_detectStaticByDirectories(present) ==
  IF present \cap {"app", "public", "src"} # {}
  THEN Framework("static-site")
  ELSE Framework("unknown")

\* ProjectScanner.detectStaticFramework, given which of index.html, public, src exist
Scanner_detectStaticFramework(present) ==
  IF present \cap {"index.html", "public", "src"} # {}
  THEN Framework("static-site")
  ELSE Framework("unknown")

\* the paths detectFramework asks the file system about
Scanner_detectReads(pj) ==
  IF ~ pj.present THEN {"index.html", "public", "src"}
  ELSE IF "next" \in Scanner_deps(pj) THEN {"app", "pages"}
  ELSE IF Scanner_deps(pj) \cap {"react-router-dom", "@reach/router", "vue-router", "express", "nuxt",
                        "@nuxt/core", "@nuxt/kit", "react-scripts", "react", "vue"} # {}
          \/ includes(pj.start, <<"r","e","a","c","t","-","s","c","r","i","p","t","s">>)
       THEN {}
  ELSE {"index.html", "public", "src"}

\* ProjectScanner.detectFramework, given the paths that exist
Scanner_detectFramework(pj, present) ==
  IF ~ pj.present THEN Scanner_detectStaticFramework(present)
  ELSE IF "next" \in Scanner_deps(pj)
       THEN [name |-> "nextjs", hasAppRouter |-> "app" \in present,
             hasPagesRouter |-> "pages" \in present]
  ELSE IF Scanner_deps(pj) \cap {"react-router-dom", "@reach/router"} # {} THEN Framework("react-router")
  ELSE IF "vue-router" \in Scanner_deps(pj) THEN Framework("vue-router")
  ELSE IF "express" \in Scanner_deps(pj) THEN Framework("express")
  ELSE IF Scanner_deps(pj) \cap {"nuxt", "@nuxt/core", "@nuxt/kit"} # {} THEN Framework("nuxt")
  ELSE IF {"vite", "react"} \subseteq Scanner_deps(pj) THEN Framework("vite-react")
  ELSE IF "react-scripts" \in Scanner_deps(pj) \/ includes(pj.start, <<"r","e","a","c","t","-","s","c","r","i","p","t","s">>)
       THEN Framework("create-react-app")
  ELSE IF "react" \in Scanner_deps(pj) THEN Framework("react")
  ELSE IF "vue" \in Scanner_deps(pj) THEN Framework("vue")
  ELSE Scanner_detectStaticFramework(present)

\* detectBaseUrl, had it searched the dev script and the start script
Scanner_detectBaseUrlBothScripts(pj) ==
  LET scripts == pj.dev \o <<" ">> \o pj.start
  IN IF pj.present /\ pj.hasScripts /\ includes(scripts, <<"3","0","0","0">>)
     THEN <<"h","t","t","p",":","/","/","l","o","c","a","l","h","o","s","t",":","3","0","0","0">>
     ELSE IF pj.present /\ pj.hasScripts /\ includes(scripts, <<"8","0","8","0">>)
     THEN <<"h","t","t","p",":","/","/","l","o","c","a","l","h","o","s","t",":","8","0","8","0">>
     ELSE IF pj.present /\ pj.hasScripts /\ includes(scripts, <<"5","1","7","3">>)
     THEN <<"h","t","t","p",":","/","/","l","o","c","a","l","h","o","s","t",":","5","1","7","3">>
     ELSE <<"h","t","t","p",":","/","/","l","o","c","a","l","h","o","s","t",":","3","0","0","0">>

\* ProjectScanner.detectBaseUrl
Scanner_detectBaseUrl(pj) ==
  LET devScript == IF pj.dev # NoText THEN pj.dev ELSE pj.start
  IN IF pj.present /\ pj.hasScripts /\ devScript # NoText /\ includes(devScript, <<"3","0","0","0">>)
     THEN <<"h","t","t","p",":","/","/","l","o","c","a","l","h","o","s","t",":","3","0","0","0">>
     ELSE IF pj.present /\ pj.hasScripts /\ devScript # NoText /\ includes(devScript, <<"8","0","8","0">>)
     THEN <<"h","t","t","p",":","/","/","l","o","c","a","l","h","o","s","t",":","8","0","8","0">>
     ELSE IF pj.present /\ pj.hasScripts /\ devScript # NoText /\ includes(devScript, <<"5","1","7","3">>)
     THEN <<"h","t","t","p",":","/","/","l","o","c","a","l","h","o","s","t",":","5","1","7","3">>
     ELSE <<"h","t","t","p",":","/","/","l","o","c","a","l","h","o","s","t",":","3","0","0","0">>

(***************************************************************************)
(* What the file system may hold.                                          *)
(***************************************************************************)
\* the sequences of at most n distinct members of S: what a glob may return
DistinctSeqs(S, n) ==
  { s \in UNION { [1..k -> S] : k \in 0..n } :
      \A i, j \in DOMAIN s : i # j => s[i] # s[j] }

AppPageFiles ==
  { <<"p","a","g","e",".","t","s","x">>, <<"(","g",")","/","s","e","t","t","i","n","g","s","/","[","i","d","]","/","p","a","g","e",".","t","s","x">>, <<"a","b","o","u","t","/","p","a","g","e",".","t","s","x">>, <<"(","g",")","/","a","b","o","u","t","/","p","a","g","e",".","t","s","x">> }

AppRouteFiles == { <<"a","p","i","/","u","s","e","r","s","/","[","i","d","]","/","r","o","u","t","e",".","t","s">>, <<"a","p","i","/","h","e","a","l","t","h","/","r","o","u","t","e",".","t","s">> }

PagesFiles == { <<"a","b","o","u","t",".","j","s">>, <<"a","p","i","/","u","s","e","r","s",".","j","s">>, <<"d","a","s","h","b","o","a","r","d","/","i","n","d","e","x",".","j","s">> }

HtmlFiles == { <<"i","n","d","e","x",".","h","t","m","l">>, <<"a","d","m","i","n","/","i","n","d","e","x",".","h","t","m","l">>, <<"s","i","g","n","i","n",".","h","t","m","l">> }

ComponentFiles == { <<"p","a","g","e","s","/","a","b","o","u","t",".","j","s">>, <<"s","r","c","/","p","a","g","e","s","/","p","r","o","f","i","l","e",".","j","s">> }

\* what each glob may return
AppPageGlobs == DistinctSeqs(AppPageFiles, MaxFiles)
AppRouteGlobs == DistinctSeqs(AppRouteFiles, MaxFiles)
PagesGlobs == DistinctSeqs(PagesFiles, MaxFiles)
HtmlGlobs == DistinctSeqs(HtmlFiles, MaxFiles)
ComponentGlobs == DistinctSeqs(ComponentFiles, MaxFiles)

Unreadable == [ok |-> FALSE, content |-> <<>>]
Readable(content) == [ok |-> TRUE, content |-> content]

\* what reading one .js/.ts file of an Express project may give
ExpressReads ==
  { Unreadable,
    Readable(<<>>),
    Readable(<< Call(<<"a","p","p">>, <<"g","e","t">>, <<"/">>), Call(<<"a","p","p">>, <<"g","e","t">>, <<"/","a","d","m","i","n">>) >>),
    Readable(<< Call(<<"a","p","p">>, <<"p","o","s","t">>, <<"/","a","p","i","/","a","u","t","h","/","l","o","g","i","n">>) >>),
    Readable(<< Call(<<"u","s","e","r","s">>, <<"g","e","t">>, <<"/","x">>), Call(<<"u","s","e","r","s">>, <<"g","e","t">>, <<"/","x">>) >>),
    Readable(<< Call(<<"u","s","e","r","s">>, <<"g","e","t">>, <<"/","x">>), Call(<<"u","s","e","r","s">>, <<"g","e","t">>, <<"/","a","u","t","h","/","l","o","g","i","n">>) >>),
    Readable(<< Chain(<<"r","o","u","t","e","r">>, <<"/","p">>, <<"g","e","t">>), Call(<<"u","s","e","r","s">>, <<"d","e","l","e","t","e">>, <<"i","t","e","m","/">>) >>),
    Readable(<< Call(<<"a","p","p">>, <<"u","s","e">>, <<"/","a","p","i">>), Call(<<"a","p","p">>, <<"u","s","e">>, <<"u","s","e","r","s">>),
               Call(<<"a","p","p">>, <<"u","s","e">>, <<"/","s","t","a","t","i","c">>) >>),
    Readable(<< Call(<<"u","s","e","r","s">>, <<"g","e","t">>, <<"/","a","p","i","/","h","e","a","l","t","h">>), Call(<<"u","s","e","r","s">>, <<"g","e","t">>, <<"/","a","p","i","/","a","d","m","i","n">>) >>) }

\* what reading one source file of a React project may give
ReactReads ==
  { Unreadable,
    Readable(<<>>),
    Readable(<< Element(<<"/">>), Element(<<"/","d","a","s","h","b","o","a","r","d">>) >>),
    Readable(<< Element(<<"/","a","b","o","u","t">>) >>),
    Readable(<< Object(<<"/","a","b","o","u","t">>), Object(<<"/","l","o","g","i","n">>) >>),
    Readable(<< Element(<<"*">>) >>),
    Readable(<< Object(<<"/","a","p","i","/","a","d","m","i","n">>) >>) }

(***************************************************************************)
(* ProjectScanner.scan().                                                  *)
(***************************************************************************)
NoAdapter ==
  [kind |-> "none", copy |-> "none", routerType |-> "null", routes |-> EmptyRoutes,
   foundRoutes |-> {}]

NoFsLog ==
  [manifest |-> "unread", present |-> {}, absent |-> {}, files |-> <<>>,
   appPages |-> <<>>, appRoutes |-> <<>>, pagesFiles |-> <<>>,
   htmlFiles |-> <<>>, componentFiles |-> <<>>, thrown |-> "none"]

NoResult ==
  [kind |-> "none", framework |-> NoFramework, routes |-> EmptyRoutes,
   baseURL |-> NoText, loginURL |-> NoText]

ScanInit(pc0) ==
  /\ pc = pc0
  /\ packageJson = NoManifest
  /\ framework = NoFramework
  /\ routes = EmptyRoutes
  /\ adapter = NoAdapter
  /\ fsLog = NoFsLog
  /\ result = NoResult

NormIdle == nIn = <<>> /\ nFn = "none" /\ nOut = <<>>

NoRoute == RouteObject(NoText, NoText, NoText, "", {})

ClassIdle ==
  /\ cBy = "none"
  /\ cRoutes = EmptyRoutes
  /\ cLast = [raw |-> NoRoute, bucket |-> "none", entry |-> NoRoute]

\* a ProjectScanner nobody has called scan() on
NoInstance ==
  [pc |-> "idle", packageJson |-> NoManifest, framework |-> NoFramework, routes |-> EmptyRoutes,
   adapter |-> NoAdapter, fsLog |-> NoFsLog, result |-> NoResult]

OneTask == self = 1 /\ other = NoInstance

\* a route file of the test project: absent, or the array it exports; corrupt
\* when the text after 'export const xRoutes = ' is no JSON array any more
NoFile == [present |-> FALSE, corrupt |-> FALSE, routes |-> <<>>]

RouteFile(entries) == [present |-> TRUE, corrupt |-> FALSE, routes |-> entries]

NoCall == [type |-> "none", url |-> NoText, name |-> NoText, outcome |-> "none"]

\* no ./playwright-tests directory
NoTests ==
  [exists |-> FALSE, files |-> [t \in {"public", "protected", "api"} |-> NoFile],
   before |-> [t \in {"public", "protected", "api"} |-> NoFile], calls |-> 0, last |-> NoCall]

NoProject == tests = NoTests

\* scan() has been called at most once on the instance
ScannedOnce == first = NoInstance

Init == ScanInit("loadPackageJson") /\ NormIdle /\ ClassIdle /\ OneTask /\ NoProject /\ ScannedOnce

\* loadPackageJson: no package.json
LoadNoPackageJson ==
  /\ pc = "loadPackageJson"
  /\ pc' = "detectFramework"
  /\ fsLog' = [fsLog EXCEPT !.manifest = "missing"]
  /\ UNCHANGED <<packageJson, framework, routes, adapter, result>>
  /\ UNCHANGED restVars

\* loadPackageJson: fs.readJson resolves
LoadPackageJson(m) ==
  /\ pc = "loadPackageJson"
  /\ pc' = "detectFramework"
  /\ packageJson' = m
  /\ fsLog' = [fsLog EXCEPT !.manifest = "valid"]
  /\ UNCHANGED <<framework, routes, adapter, result>>
  /\ UNCHANGED restVars

\* loadPackageJson: fs.readJson rejects (the file is not valid JSON); nothing
\* between it and the caller of scan() catches
LoadPackageJsonThrows ==
  /\ pc = "loadPackageJson"
  /\ pc' = "rejected"
  /\ fsLog' = [fsLog EXCEPT !.manifest = "invalid"]
  /\ result' = [NoResult EXCEPT !.kind = "rejected"]
  /\ UNCHANGED <<packageJson, framework, routes, adapter>>
  /\ UNCHANGED restVars

DetectFramework(present) ==
  /\ pc = "detectFramework"
  /\ present \subseteq Scanner_detectReads(packageJson)
  /\ framework' = Scanner_detectFramework(packageJson, present)
  /\ fsLog' = [fsLog EXCEPT !.present = present,
                            !.absent = Scanner_detectReads(packageJson) \ present]
  /\ pc' = "scanRoutes"
  /\ UNCHANGED <<packageJson, routes, adapter, result>>
  /\ UNCHANGED restVars

\* scanRoutes, case 'nextjs': new NextjsFramework, detect(); copy is the file
\* './frameworks/nextjs.js' resolves to
StartNextjs(copy) ==
  /\ pc = "scanRoutes"
  /\ framework.name = "nextjs"
  /\ adapter' = [NoAdapter EXCEPT !.kind = "nextjs", !.copy = copy]
  /\ pc' = "scanAppRouter"
  /\ UNCHANGED <<packageJson, framework, routes, fsLog, result>>
  /\ UNCHANGED restVars

\* NextjsFramework.scanRoutes: if (this.hasAppRouter) await this.scanAppRouter(routes)
ScanAppRouter(pageFiles, routeFiles) ==
  /\ pc = "scanAppRouter"
  /\ IF framework.hasAppRouter
     THEN /\ adapter' = [adapter EXCEPT
                           !.routes = Nextjs_scanAppRouter(adapter.copy, @, pageFiles, routeFiles)]
          /\ fsLog' = [fsLog EXCEPT !.appPages = pageFiles, !.appRoutes = routeFiles]
     ELSE /\ pageFiles = <<>> /\ routeFiles = <<>>
          /\ UNCHANGED <<adapter, fsLog>>
  /\ pc' = "scanPagesRouter"
  /\ UNCHANGED <<packageJson, framework, routes, result>>
  /\ UNCHANGED restVars

\* NextjsFramework.scanRoutes: if (this.hasPagesRouter) await this.scanPagesRouter(routes);
\* return routes, which scanRoutes assigns to this.routes
ScanPagesRouter(pageFiles) ==
  /\ pc = "scanPagesRouter"
  /\ IF framework.hasPagesRouter
     THEN /\ adapter' = [adapter EXCEPT !.routes =
                          Nextjs_scanPagesRouter(adapter.copy, @, pageFiles)]
          /\ fsLog' = [fsLog EXCEPT !.pagesFiles = pageFiles]
     ELSE /\ pageFiles = <<>>
          /\ UNCHANGED <<adapter, fsLog>>
  /\ routes' = adapter'.routes
  /\ pc' = "scanned"
  /\ UNCHANGED <<packageJson, framework, result>>
  /\ UNCHANGED restVars

\* the routerType of the ReactFramework after scanRoutes set it and detect() ran
React_routerType(frameworkName, deps) ==
  LET set == IF frameworkName = "react-router" THEN "react-router-dom" ELSE "null"
  IN IF "react" \notin deps THEN set
     ELSE IF "react-router-dom" \in deps THEN "react-router-dom"
     ELSE IF "@reach/router" \in deps THEN "reach-router"
     ELSE set

\* scanRoutes, case 'react' | 'react-router', up to the first file read of
\* scanRouterRoutes: no router, or no src directory, ends the adapter here
StartReact(srcExists) ==
  /\ pc = "scanRoutes"
  /\ framework.name \in {"react", "react-router"}
  /\ LET rt == React_routerType(framework.name, Scanner_deps(packageJson))
         a == [NoAdapter EXCEPT !.kind = "react", !.routerType = rt]
     IN IF rt = "null"
        THEN /\ srcExists
             /\ adapter' = [a EXCEPT !.routes = React_addDefaultRoutes(EmptyRoutes)]
             /\ routes' = React_addDefaultRoutes(EmptyRoutes)
             /\ pc' = "scanned"
             /\ UNCHANGED fsLog
        ELSE IF ~ srcExists
        THEN /\ adapter' = a
             /\ routes' = EmptyRoutes
             /\ pc' = "scanned"
             /\ fsLog' = [fsLog EXCEPT !.absent = @ \cup {"src"}]
        ELSE /\ adapter' = a
             /\ pc' = "reactFiles"
             /\ fsLog' = [fsLog EXCEPT !.present = @ \cup {"src"}]
             /\ UNCHANGED routes
  /\ UNCHANGED <<packageJson, framework, result>>
  /\ UNCHANGED restVars

\* the catch block, had it thrown the routes collected so far away
CatchAndReset(rs) == EmptyRoutes

\* catch (error) { continue; } around the read of one file: the routes
\* collected so far stay as they are
CatchAndContinue(rs) == rs

\* the loop, had it taken the files of the glob from the last to the first
LastFileFirst(done) == MaxFiles - Len(done)

\* for (const file of routeFiles) with the await in its body: the file the
\* loop reads once the reads in done have been dealt with is the next of the glob
NextFile(done) == Len(done) + 1

\* one turn of the for loop of scanRouterRoutes: the next file of the glob is read
ReactReadFile(read) ==
  /\ pc = "reactFiles"
  /\ Len(fsLog.files) < MaxFiles
  /\ fsLog' = [fsLog EXCEPT !.files = Append(@, read)]
  /\ IF read.ok
     THEN LET acc == React_forEachExtracted(
                       React_extractRoutesFromFile(read.content, FileName(NextFile(fsLog.files))),
                       [routes |-> adapter.routes, foundRoutes |-> adapter.foundRoutes])
          IN adapter' = [adapter EXCEPT !.routes = acc.routes, !.foundRoutes = acc.foundRoutes]
     ELSE adapter' = [adapter EXCEPT !.routes = CatchAndContinue(@)]
  /\ UNCHANGED <<pc, packageJson, framework, routes, result>>
  /\ UNCHANGED restVars

\* the glob's files are exhausted: the defaults if nothing was found, and return
ReactFinish ==
  /\ pc = "reactFiles"
  /\ LET rs == IF Cardinality(adapter.foundRoutes) = 0
               THEN React_addDefaultRoutes(adapter.routes)
               ELSE adapter.routes
     IN /\ adapter' = [adapter EXCEPT !.routes = rs]
        /\ routes' = rs
  /\ pc' = "scanned"
  /\ UNCHANGED <<packageJson, framework, fsLog, result>>
  /\ UNCHANGED restVars

\* scanRoutes, case 'express': new ExpressFramework, detect(), the glob
StartExpress ==
  /\ pc = "scanRoutes"
  /\ framework.name = "express"
  /\ adapter' = [NoAdapter EXCEPT !.kind = "express"]
  /\ pc' = "expressFiles"
  /\ UNCHANGED <<packageJson, framework, routes, fsLog, result>>
  /\ UNCHANGED restVars

\* one turn of the for loop of ExpressFramework.scanRoutes
ExpressReadFile(read) ==
  /\ pc = "expressFiles"
  /\ Len(fsLog.files) < MaxFiles
  /\ fsLog' = [fsLog EXCEPT !.files = Append(@, read)]
  /\ IF read.ok
     THEN adapter' = [adapter EXCEPT !.routes =
                        Express_categorizeAll(
                          Express_extractExpressRoutes(read.content,
                                                       FileName(NextFile(fsLog.files))),
                          @)]
     ELSE adapter' = [adapter EXCEPT !.routes = CatchAndContinue(@)]
  /\ UNCHANGED <<pc, packageJson, framework, routes, result>>
  /\ UNCHANGED restVars

\* the glob's files are exhausted: the defaults if nothing was found, and return
ExpressFinish ==
  /\ pc = "expressFiles"
  /\ LET rs == IF getTotalRoutes(adapter.routes) = 0
               THEN Express_addDefaultExpressRoutes(adapter.routes)
               ELSE adapter.routes
     IN /\ adapter' = [adapter EXCEPT !.routes = rs]
        /\ routes' = rs
  /\ pc' = "scanned"
  /\ UNCHANGED <<packageJson, framework, fsLog, result>>
  /\ UNCHANGED restVars

\* scanRoutes, every other framework name: scanGenericRoutes
ScanGenericRoutes(htmlFiles, componentFiles, thrown, hasApiDirectory) ==
  /\ pc = "scanRoutes"
  /\ framework.name \notin {"nextjs", "react", "react-router", "express"}
  /\ thrown = "html" => htmlFiles = <<>>
  /\ thrown # "none" => componentFiles = <<>>
  /\ routes' = Scanner_scanGenericRoutes(routes, htmlFiles, componentFiles, thrown,
                                         hasApiDirectory)
  /\ adapter' = [NoAdapter EXCEPT !.kind = "generic"]
  /\ fsLog' = [fsLog EXCEPT !.htmlFiles = htmlFiles, !.componentFiles = componentFiles,
                            !.thrown = thrown,
                            !.present = @ \cup (IF hasApiDirectory THEN {"api"} ELSE {}),
                            !.absent = @ \cup (IF hasApiDirectory THEN {} ELSE {"api"})]
  /\ pc' = "scanned"
  /\ UNCHANGED <<packageJson, framework, result>>
  /\ UNCHANGED restVars

\* detectAuthPatterns (it changes nothing), generateConfig, and scan() returns
Return ==
  /\ pc = "scanned"
  /\ result' = [kind |-> "value", framework |-> framework, routes |-> routes,
                baseURL |-> Scanner_detectBaseUrl(packageJson),
                loginURL |-> Scanner_detectLoginUrl(routes)]
  /\ pc' = "done"
  /\ UNCHANGED <<packageJson, framework, routes, adapter, fsLog>>
  /\ UNCHANGED restVars

Next ==
  \/ LoadNoPackageJson
  \/ \E m \in Manifests : LoadPackageJson(m)
  \/ LoadPackageJsonThrows
  \/ \E present \in SUBSET {"index.html", "public", "src", "app", "pages"} :
       DetectFramework(present)
  \/ \E copy \in NextjsCopies : StartNextjs(copy)
  \/ \E pageFiles \in AppPageGlobs, routeFiles \in AppRouteGlobs :
       ScanAppRouter(pageFiles, routeFiles)
  \/ \E pageFiles \in PagesGlobs : ScanPagesRouter(pageFiles)
  \/ \E srcExists \in BOOLEAN : StartReact(srcExists)
  \/ \E read \in ReactReads : ReactReadFile(read)
  \/ ReactFinish
  \/ StartExpress
  \/ \E read \in ExpressReads : ExpressReadFile(read)
  \/ ExpressFinish
  \/ \E htmlFiles \in HtmlGlobs, componentFiles \in ComponentGlobs,
        thrown \in {"none", "html", "component"},
        hasApiDirectory \in BOOLEAN :
       ScanGenericRoutes(htmlFiles, componentFiles, thrown, hasApiDirectory)
  \/ Return

Spec == Init /\ [][Next]_vars

(***************************************************************************)
(* Properties of the value scan() returns.                                 *)
(***************************************************************************)
\* scan() has resolved
Returned == result.kind = "value"

\* the entries of a RouteSet, bucket after bucket
AllRoutes(rs) == rs.public \o rs.protected \o rs.api

\* the entries of a sequence of route objects, as a set
Entries(list) == { list[i] : i \in DOMAIN list }

\* a canonical URL: leading '/', no '//', no trailing '/' unless it is '/'
Canonical(url) ==
  /\ startsWith(url, <<"/">>)
  /\ ~ includes(url, <<"/","/">>)
  /\ (url = <<"/">> \/ ~ endsWith(url, <<"/">>))

\* C1: every route URL of the RouteSet scan() returns starts with '/', holds
\* no '//' and does not end with '/' unless it is exactly '/', whichever
\* adapter produced the route.
C1_CanonicalUrls ==
  Returned => \A r \in Entries(AllRoutes(result.routes)) : Canonical(r.url)

\* C1, where the claim breaks: a React Router project whose source holds
\* <Route path="*" .../> has been scanned and '*' is a URL of the result
C1_RawReactPath ==
  /\ Returned
  /\ adapter.kind = "react"
  /\ \E r \in Entries(AllRoutes(result.routes)) : r.url = <<"*">>

\* C2: every entry of the protected bucket and of the api bucket of the
\* returned RouteSet has requiresAuth === true, defaults and placeholders
\* included.
C2_RequiresAuth ==
  Returned =>
    \A r \in Entries(result.routes.protected \o result.routes.api) :
      "requiresAuth" \in r.keys /\ r.requiresAuth = TRUE

\* C2, where the claim breaks: the Express defaults were injected and the
\* api bucket holds POST /api/auth/login with requiresAuth false
C2_PublicLoginEndpoint ==
  /\ Returned
  /\ adapter.kind = "express"
  /\ \E r \in Entries(result.routes.api) :
       /\ r.url = <<"/","a","p","i","/","a","u","t","h","/","l","o","g","i","n">>
       /\ "requiresAuth" \in r.keys
       /\ r.requiresAuth = FALSE

\* C3: no bucket of the returned RouteSet holds two entries with the same
\* (method, URL), also when the two registrations come from different source
\* files or from different extraction patterns.
C3_NoDuplicates ==
  Returned =>
    \A b \in Buckets :
      \A i, j \in DOMAIN result.routes[b] :
        i # j => ~ (/\ result.routes[b][i].method = result.routes[b][j].method
                    /\ result.routes[b][i].url = result.routes[b][j].url)

\* C3, where the claim breaks: two files of an Express project register the
\* same method and path, and the bucket holds one entry per file
C3_SameRouteFromTwoFiles ==
  /\ Returned
  /\ adapter.kind = "express"
  /\ \E b \in Buckets :
       \E i, j \in DOMAIN result.routes[b] :
         /\ result.routes[b][i].method = result.routes[b][j].method
         /\ result.routes[b][i].url = result.routes[b][j].url
         /\ result.routes[b][i].file # result.routes[b][j].file

\* C4: the RouteSet scan() returns is never empty.
C4_NeverEmpty == Returned => getTotalRoutes(result.routes) > 0

\* C4, where the claim breaks: a Next.js project without any page or route
\* file has been scanned, and the returned RouteSet has no entry
C4_EmptyNextjsScan ==
  /\ Returned
  /\ adapter.kind = "nextjs"
  /\ getTotalRoutes(result.routes) = 0

\* C5: scan() never throws or rejects, whatever the project holds.
C5_NeverRejects == result.kind # "rejected"

\* C5, where the claim breaks: package.json exists and is not valid JSON
C5_InvalidManifestRejects == fsLog.manifest = "invalid" /\ pc = "rejected"

\* C8: every protected route of the returned RouteSet carries expectedRedirect
\* and no expectedStatus, every api route carries expectedStatus and no
\* expectedRedirect.
C8_OneExpectation ==
  Returned =>
    /\ \A r \in Entries(result.routes.protected) :
         "expectedRedirect" \in r.keys /\ "expectedStatus" \notin r.keys
    /\ \A r \in Entries(result.routes.api) :
         "expectedStatus" \in r.keys /\ "expectedRedirect" \notin r.keys

\* C8, where the claim breaks: the generic scan found an api directory and
\* pushed its placeholder, which has no expectation field at all
C8_PlaceholderWithoutExpectation ==
  /\ Returned
  /\ adapter.kind = "generic"
  /\ \E r \in Entries(result.routes.api) :
       r.url = <<"/","a","p","i","/","h","e","a","l","t","h">> /\ r.keys \cap {"expectedStatus", "expectedRedirect"} = {}

\* what the classifiers call an API route: the path starts with the API
\* prefix, or the method is set and is not GET, or the path holds an API keyword
ApiLike(r) ==
  \/ startsWith(r.url, <<"/","a","p","i">>)
  \/ ("method" \in r.keys /\ r.method # GET)
  \/ Express_isApiEndpoint(r.url)

CurrentRoutes == IF adapter.kind = "generic" THEN routes ELSE adapter.routes

\* the positions of a RouteSet that hold a discovered route (one read from a file)
Positions(rs) ==
  { p \in UNION { { <<b, i>> : i \in DOMAIN rs[b] } : b \in Buckets } :
      "file" \in rs[p[1]][p[2]].keys }

\* what the Express extractor returned for the k-th file read
ExpressExtracted(k) ==
  IF fsLog.files[k].ok
  THEN Express_extractExpressRoutes(fsLog.files[k].content, FileName(k))
  ELSE <<>>

\* every route the Express extractor returned so far is k times in the
\* buckets when it was returned k times, and the buckets hold nothing else
ExpressOnce(rs) ==
  LET id(r) == <<r.url, r.method, r.file>>
      count(extracted, held) ==
        \A x \in Entries(extracted) \cup Entries(held) :
          Cardinality({ i \in DOMAIN held : held[i] = x })
            = Cardinality({ i \in DOMAIN extracted : extracted[i] = x })
      ids(list) == [i \in DOMAIN list |-> id(list[i])]
      all(k) == IF k = 0 THEN <<>> ELSE ids(ExpressExtracted(k))
      RECURSIVE upTo(_)
      upTo(k) == IF k = 0 THEN <<>> ELSE upTo(k - 1) \o all(k)
  IN count(upTo(Len(fsLog.files)), ids(SelectSeq(AllRoutes(rs), LAMBDA r : "file" \in r.keys)))

\* every path a React file read so far declares is the url of exactly one
\* entry, and the buckets hold nothing else
ReactOnce(rs) ==
  LET paths == UNION { { fsLog.files[k].content[i].path : i \in DOMAIN fsLog.files[k].content } :
                       k \in { k \in DOMAIN fsLog.files : fsLog.files[k].ok } }
  IN /\ \A u \in paths :
          Cardinality({ p \in Positions(rs) : rs[p[1]][p[2]].url = u }) = 1
     /\ \A p \in Positions(rs) : rs[p[1]][p[2]].url \in paths

\* every file the globs of the Next.js adapter or of the generic scan returned
\* is the file of exactly one entry, and the buckets hold nothing else
FilesOnce(rs) ==
  LET files == { <<"a","p","p","/">> \o fsLog.appPages[i] : i \in DOMAIN fsLog.appPages }
                 \cup { <<"a","p","p","/">> \o fsLog.appRoutes[i] : i \in DOMAIN fsLog.appRoutes }
                 \cup { <<"p","a","g","e","s","/">> \o fsLog.pagesFiles[i] : i \in DOMAIN fsLog.pagesFiles }
                 \cup { fsLog.htmlFiles[i] : i \in DOMAIN fsLog.htmlFiles }
                 \cup { fsLog.componentFiles[i] : i \in DOMAIN fsLog.componentFiles }
  IN /\ \A f \in files :
          Cardinality({ p \in Positions(rs) : rs[p[1]][p[2]].file = f }) = 1
     /\ \A p \in Positions(rs) : rs[p[1]][p[2]].file \in files

ExactlyOnce(rs) ==
  CASE adapter.kind = "express" -> ExpressOnce(rs)
    [] adapter.kind = "react" -> ReactOnce(rs)
    [] adapter.kind \in {"nextjs", "generic"} -> FilesOnce(rs)
    [] OTHER -> Positions(rs) = {}

\* C7: every route discovered during a scan is in exactly one of the buckets
\* public, protected, api, exactly once: classification drops no discovered
\* route and puts none in two buckets. It holds at every step of the scan and
\* of the value returned.
C7_ExactlyOneBucket ==
  /\ ExactlyOnce(CurrentRoutes)
  /\ Returned => ExactlyOnce(result.routes)

\* C7, its case: an Express scan has classified discovered routes into each of
\* the three buckets and has returned
C7_ThreeBucketsFilled ==
  /\ Returned
  /\ adapter.kind = "express"
  /\ \A b \in Buckets : \E i \in DOMAIN result.routes[b] : "file" \in result.routes[b][i].keys

(***************************************************************************)
(* The normalisers on their own: a path is put together from pieces, then  *)
(* one normaliser is applied to it, and applied again to its own output.   *)
(***************************************************************************)
Pieces ==
  { <<"/">>,
    <<"\\">>,
    <<"(","g",")","/">>,
    <<"[","i","d","]","/">>,
    <<"[",".",".",".","s","]","/">>,
    <<"a","/">>,
    <<"a","p","i","/","u","s","e","r","s","/">>,
    <<"s","e","t","t","i","n","g","s","/">>,
    <<"p","a","g","e",".","t","s","x">>,
    <<"r","o","u","t","e",".","t","s">>,
    <<"i","n","d","e","x",".","j","s">>,
    <<"^">>,
    <<"$">> }

Normalisers == {"app", "pages", "appSrc", "pagesSrc", "express", "scannerApp", "scannerPages"}

Normalise(f, p) ==
  CASE f = "app" -> Nextjs_convertAppRouterPathToUrl(p)
    [] f = "pages" -> Nextjs_convertPagesRouterPathToUrl(p)
    [] f = "appSrc" -> NextjsSrc_convertAppRouterPathToUrl(p)
    [] f = "pagesSrc" -> NextjsSrc_convertPagesRouterPathToUrl(p)
    [] f = "express" -> Express_normalizeExpressRoutePath(p)
    [] f = "scannerApp" -> Scanner_convertAppRouterPathToUrl(p)
    [] f = "scannerPages" -> Scanner_convertPagesRouterPathToUrl(p)

NormInit == ScanInit("idle") /\ NormIdle /\ ClassIdle /\ OneTask /\ NoProject /\ ScannedOnce

\* the path spelled by a sequence of pieces
RECURSIVE Concat(_)
Concat(ps) == IF ps = <<>> THEN <<>> ELSE Head(ps) \o Concat(Tail(ps))

\* one more piece of the input path
NormExtend(p) ==
  /\ nFn = "none"
  /\ Len(nIn) < MaxPieces
  /\ nIn' = Append(nIn, p)
  /\ UNCHANGED <<nFn, nOut>>
  /\ UNCHANGED <<scanVars, classVars, taskVars, tests, first>>

\* the normaliser f applied to the path, or to its own last output
NormApply(f) ==
  /\ nIn # <<>>
  /\ nFn \in {"none", f}
  /\ Len(nOut) < 2
  /\ nFn' = f
  /\ nOut' = Append(nOut, Normalise(f, IF nOut = <<>> THEN Concat(nIn) ELSE nOut[Len(nOut)]))
  /\ UNCHANGED nIn
  /\ UNCHANGED <<scanVars, classVars, taskVars, tests, first>>

NormNext ==
  \/ \E p \in Pieces : NormExtend(p)
  \/ \E f \in Normalisers : NormApply(f)

NormSpec == NormInit /\ [][NormNext]_vars

(***************************************************************************)
(* Properties of the normalisers.                                          *)
(***************************************************************************)
\* C9: the normaliser is idempotent, normalize(normalize(p)) = normalize(p),
\* for the app-router, the pages-router and the Express normaliser.
C9_Idempotent ==
  (nFn \in {"app", "pages", "appSrc", "pagesSrc", "express"} /\ Len(nOut) = 2)
    => nOut[2] = nOut[1]

\* C9, where the claim breaks: the pages normaliser maps 'index.js' to
\* '/index' and '/index' to '/'
C9_IndexPageTwice ==
  /\ nFn = "pages"
  /\ nIn = << <<"i","n","d","e","x",".","j","s">> >>
  /\ nOut = << <<"/","i","n","d","e","x">>, <<"/">> >>

\* the pieces that are a directory segment of a file path, and the file names
SegmentPieces == { <<"(","g",")","/">>, <<"[","i","d","]","/">>, <<"[",".",".",".","s","]","/">>, <<"a","/">>, <<"a","p","i","/","u","s","e","r","s","/">>, <<"s","e","t","t","i","n","g","s","/">> }
PagePieces == { <<"p","a","g","e",".","t","s","x">> }
RoutePieces == { <<"r","o","u","t","e",".","t","s">> }

\* the URL segments a directory segment stands for: a route group for none,
\* [id] for :id, [...s] for *
SegmentUrl(piece) ==
  CASE piece = <<"(","g",")","/">> -> <<>>
    [] piece = <<"[","i","d","]","/">> -> <<"/",":","i","d">>
    [] piece = <<"[",".",".",".","s","]","/">> -> <<"/","*">>
    [] piece = <<"a","/">> -> <<"/","a">>
    [] piece = <<"a","p","i","/","u","s","e","r","s","/">> -> <<"/","a","p","i","/","u","s","e","r","s">>
    [] piece = <<"s","e","t","t","i","n","g","s","/">> -> <<"/","s","e","t","t","i","n","g","s">>

RECURSIVE SegmentsUrl(_)
SegmentsUrl(ps) == IF ps = <<>> THEN <<>> ELSE SegmentUrl(Head(ps)) \o SegmentsUrl(Tail(ps))

\* the URL of a file path made of directory segments and a file name
ExpectedUrl(ps) ==
  LET u == SegmentsUrl(SubSeq(ps, 1, Len(ps) - 1))
  IN IF u = <<>> THEN <<"/">> ELSE u

\* directory segments, then one of the file names
FilePath(ps, names) ==
  /\ ps # <<>>
  /\ ps[Len(ps)] \in names
  /\ \A i \in 1..(Len(ps) - 1) : ps[i] \in SegmentPieces

\* C10: the app-router normaliser, in each place the repository has it
\* (NextjsFramework in its two files, ProjectScanner), maps [id] to :id and
\* [...slug] to *, removes a route group without leaving '//', and drops the
\* file name page.* or route.*: '(g)/[id]/page.tsx' gives '/:id',
\* '(g)/settings/page.tsx' gives '/settings', 'api/users/[id]/route.ts' gives
\* '/api/users/:id'.
C10_Segments ==
  (nFn \in {"app", "appSrc", "scannerApp"} /\ nOut # <<>> /\ Len(nIn) >= 2
                                           /\ FilePath(nIn, PagePieces \cup RoutePieces))
    => nOut[1] = ExpectedUrl(nIn)

\* C10, where the claim breaks: NextjsFramework.convertAppRouterPathToUrl of
\* src/core/frameworks/nextjs.js maps '(g)/[id]/page.tsx' to '//:id'
C10_GroupLeavesDoubleSlash ==
  /\ nFn = "appSrc"
  /\ nIn = << <<"(","g",")","/">>, <<"[","i","d","]","/">>, <<"p","a","g","e",".","t","s","x">> >>
  /\ nOut # <<>>
  /\ nOut[1] = <<"/","/",":","i","d">>

\* C10, where the claim breaks: ProjectScanner.convertAppRouterPathToUrl keeps
\* the file name of a route file
C10_RouteFileNameKept ==
  /\ nFn = "scannerApp"
  /\ nIn = << <<"a","p","i","/","u","s","e","r","s","/">>, <<"[","i","d","]","/">>, <<"r","o","u","t","e",".","t","s">> >>
  /\ nOut # <<>>
  /\ nOut[1] = <<"/","a","p","i","/","u","s","e","r","s","/",":","i","d","/","r","o","u","t","e",".","t","s">>

\* C10, what holds: the other file's NextjsFramework.convertAppRouterPathToUrl
\* converts every such path as stated, the app root included
C10_SegmentsSecondCopy ==
  (nFn = "app" /\ nOut # <<>> /\ FilePath(nIn, PagePieces \cup RoutePieces))
    => nOut[1] = ExpectedUrl(nIn)

(***************************************************************************)
(* Framework detection over every small package.json.                      *)
(***************************************************************************)
MaxDeps == 2

\* the packages detectFramework asks for
DepPackages ==
  {"next", "react-router-dom", "vue-router", "express", "nuxt", "vite", "react-scripts",
   "react", "vue"}

DetectInit ==
  /\ ScanInit("writing")
  /\ NormIdle /\ ClassIdle /\ OneTask /\ NoProject /\ ScannedOnce

\* the project's author adds "name": version at the end of one section of
\* package.json
Declare(section, name, version) ==
  /\ pc = "writing"
  /\ Len(packageJson.dependencies) + Len(packageJson.devDependencies) < MaxDeps
  /\ \/ /\ section = "dependencies"
        /\ name \notin DepNames(packageJson.dependencies)
        /\ packageJson' =
             IF packageJson.present
             THEN [packageJson EXCEPT !.dependencies = Append(@, Dep(name, version))]
             ELSE Manifest(<<Dep(name, version)>>, <<>>, FALSE, NoText, NoText)
     \/ /\ section = "devDependencies"
        /\ name \notin DepNames(packageJson.devDependencies)
        /\ packageJson' =
             IF packageJson.present
             THEN [packageJson EXCEPT !.devDependencies = Append(@, Dep(name, version))]
             ELSE Manifest(<<>>, <<Dep(name, version)>>, FALSE, NoText, NoText)
  /\ UNCHANGED <<pc, framework, routes, adapter, fsLog, result>>
  /\ UNCHANGED restVars

\* scan() starts on the project as written: loadPackageJson
LoadWritten ==
  /\ pc = "writing"
  /\ pc' = "detectFramework"
  /\ fsLog' = [fsLog EXCEPT !.manifest = IF packageJson.present THEN "valid" ELSE "missing"]
  /\ UNCHANGED <<packageJson, framework, routes, adapter, result>>
  /\ UNCHANGED restVars

DetectNext ==
  \/ \E section \in {"dependencies", "devDependencies"}, name \in DepPackages,
        version \in {V1, NoText} : Declare(section, name, version)
  \/ LoadWritten
  \/ \E present \in SUBSET {"index.html", "public", "src", "app", "pages"} :
       DetectFramework(present)
  \/ \E copy \in NextjsCopies : StartNextjs(copy)
  \/ \E srcExists \in BOOLEAN : StartReact(srcExists)
  \/ StartExpress
  \/ ScanGenericRoutes(<<>>, <<>>, "none", FALSE)

DetectSpec == DetectInit /\ [][DetectNext]_vars

(***************************************************************************)
(* Properties of detectFramework.                                          *)
(***************************************************************************)
\* detectFramework has returned
Detected == pc \notin {"writing", "detectFramework"}

\* the packages package.json declares, in either section
Declared(pj) == DepNames(pj.dependencies) \cup DepNames(pj.devDependencies)

\* the priority table over a set of packages; "static" stands for the two
\* answers of detectStaticFramework
PriorityTable(names) ==
  IF "next" \in names THEN "nextjs"
  ELSE IF "react-router-dom" \in names THEN "react-router"
  ELSE IF "vue-router" \in names THEN "vue-router"
  ELSE IF "express" \in names THEN "express"
  ELSE IF "nuxt" \in names THEN "nuxt"
  ELSE IF {"vite", "react"} \subseteq names THEN "vite-react"
  ELSE IF "react-scripts" \in names THEN "create-react-app"
  ELSE IF "react" \in names THEN "react"
  ELSE IF "vue" \in names THEN "vue"
  ELSE "static"

NameOrStatic(fw) == IF fw.name \in {"static-site", "unknown"} THEN "static" ELSE fw.name

\* C11: the framework detectFramework selects is the first of the priority
\* table (Next.js, React Router, Vue Router, Express, Nuxt, generic React, Vue)
\* among the packages the manifest declares; the order of the declarations
\* and the section that holds each do not matter.
C11_DeclaredPackagesDecide ==
  Detected => NameOrStatic(framework) = PriorityTable(Declared(packageJson))

\* dependencies declares next with a version, devDependencies declares it with
\* the empty version, and the framework selected is not Next.js
C11_EmptyVersionHidesNext ==
  /\ Detected
  /\ packageJson.dependencies = <<Dep("next", V1)>>
  /\ packageJson.devDependencies = <<Dep("next", NoText)>>
  /\ framework.name # "nextjs"

\* the same two declarations in the other sections select Next.js
C11_SectionsSwapped ==
  ~ ( /\ Detected
      /\ packageJson.dependencies = <<Dep("next", NoText)>>
      /\ packageJson.devDependencies = <<Dep("next", V1)>>
      /\ framework.name # "nextjs" )

\* what does hold: the table decides over the packages whose merged version
\* is truthy
C11_TruthyPackagesDecide ==
  Detected => NameOrStatic(framework) = PriorityTable(Scanner_deps(packageJson))

(***************************************************************************)
(* Properties of the default routes.                                       *)
(***************************************************************************)
\* the numbers of public, protected and api entries of a RouteSet
Counts(rs) == <<Len(rs.public), Len(rs.protected), Len(rs.api)>>

\* scan() has returned and none of the returned entries was read from a file
NothingDiscovered == Returned /\ Positions(result.routes) = {}

\* C12: when discovery finds zero routes, the RouteSet scan() returns is the
\* default set: 3 public, 3 protected and 2 api routes, and nothing else.
C12_DefaultSet == NothingDiscovered => Counts(result.routes) = <<3, 3, 2>>

\* C12, where the claim breaks: an Express project in which no file declares a
\* route gets 3 public, 2 protected and 3 api routes
C12_ExpressDefaults ==
  /\ NothingDiscovered
  /\ adapter.kind = "express"
  /\ Counts(result.routes) = <<3, 2, 3>>

\* for a React project the default set has the sizes the claim names
C12_ReactDefaults ==
  NothingDiscovered /\ adapter.kind = "react" /\ getTotalRoutes(result.routes) > 0
    => Counts(result.routes) = <<3, 3, 2>>

(***************************************************************************)
(* Properties of the scan of an unknown project.                           *)
(***************************************************************************)
\* the project has no package.json and none of index.html, public, src
NoManifestNoSources ==
  /\ fsLog.manifest = "missing"
  /\ fsLog.present \cap {"index.html", "public", "src"} = {}

\* the RouteSet of the project that holds nothing at all
EmptyProjectRoutes == Scanner_scanGenericRoutes(EmptyRoutes, <<>>, <<>>, "none", FALSE)

\* C13: a project with no manifest and no conventional source directory is
\* reported as framework 'unknown', and its RouteSet is the one every such
\* project gets, whatever HTML files, pages components or api directory it holds.
C13_UnknownProjectsAlike ==
  Returned /\ NoManifestNoSources
    => /\ result.framework.name = "unknown"
       /\ result.routes = EmptyProjectRoutes

\* C13, where the claim breaks: such a project holds an HTML file, and its
\* RouteSet is not the one of the empty project
C13_HtmlFileChangesRoutes ==
  /\ Returned
  /\ NoManifestNoSources
  /\ result.framework.name = "unknown"
  /\ fsLog.htmlFiles # <<>>
  /\ result.routes # EmptyProjectRoutes

\* the framework half of the claim
C13_UnknownFramework ==
  Returned /\ NoManifestNoSources => result.framework.name = "unknown"

(***************************************************************************)
(* Properties of the login URL.                                            *)
(***************************************************************************)
\* the path of r contains one of the words
ContainsOneOf(r, words) == \E w \in words : includes(r.url, w)

LoginWords == { <<"l","o","g","i","n">>, <<"s","i","g","n","i","n">>, <<"a","u","t","h">>, <<"a","u","t","h","e","n","t","i","c","a","t","e">> }

LoginPaths == { <<"/","l","o","g","i","n">>, <<"/","s","i","g","n","i","n">>, <<"/","a","u","t","h">>, <<"/","a","u","t","h","e","n","t","i","c","a","t","e">> }

\* C14, as stated: config.loginURL is the url of the first route of the whole
\* RouteSet whose path contains login, signin, auth or authenticate, and
\* '/login' when there is none. Whatever the discovery order is, this makes
\* loginURL the url of some such route whenever the RouteSet holds one.
C14_FirstMatchInRouteSet ==
  Returned =>
    LET matching == { r \in Entries(AllRoutes(result.routes)) : ContainsOneOf(r, LoginWords) }
    IN IF matching = {} THEN result.loginURL = LOGIN
       ELSE result.loginURL \in { r.url : r \in matching }

\* the first entry of list whose path contains one of the paths, 0 if none
FirstWith(list, paths) ==
  IF \E i \in DOMAIN list : ContainsOneOf(list[i], paths)
  THEN CHOOSE i \in DOMAIN list :
         /\ ContainsOneOf(list[i], paths)
         /\ \A j \in 1..(i - 1) : ~ ContainsOneOf(list[j], paths)
  ELSE 0

\* C14, amended: config.loginURL is the url of the first public route whose
\* path contains '/login', '/signin', '/auth' or '/authenticate'; without one,
\* of the first such protected route; without one, '/login'. The api bucket
\* is not consulted.
C14_FirstPublicThenProtected ==
  Returned =>
    LET pub == FirstWith(result.routes.public, LoginPaths)
        prot == FirstWith(result.routes.protected, LoginPaths)
    IN result.loginURL =
         IF pub # 0 THEN result.routes.public[pub].url
         ELSE IF prot # 0 THEN result.routes.protected[prot].url
         ELSE LOGIN

\* C14, its case: a public route that is not the first one names a login
\* path, and its url, which is not '/login', is the login URL returned
C14_LoginUrlFromPublic ==
  /\ Returned
  /\ FirstWith(result.routes.public, LoginPaths) > 1
  /\ result.loginURL # LOGIN

\* C14, where the claim as stated breaks: the only route naming a login word
\* is an api route, and the login URL is the default
C14_ApiLoginIgnored ==
  /\ Returned
  /\ \E r \in Entries(result.routes.api) : ContainsOneOf(r, LoginWords)
  /\ \A r \in Entries(result.routes.public) \cup Entries(result.routes.protected) :
       ~ ContainsOneOf(r, LoginWords)
  /\ result.loginURL = LOGIN

(***************************************************************************)
(* Properties of expectedRedirect.                                         *)
(***************************************************************************)
\* C15: every protected route of the returned RouteSet has expectedRedirect
\* equal to config.loginURL of the same result.
C15_RedirectIsLoginUrl ==
  Returned =>
    \A r \in Entries(result.routes.protected) :
      "expectedRedirect" \in r.keys /\ r.expectedRedirect = result.loginURL

\* C15, where the claim breaks: the generic scan classified a protected route
\* before it met the route that the login URL is taken from
C15_RedirectOlderThanLoginUrl ==
  /\ Returned
  /\ adapter.kind = "generic"
  /\ result.loginURL # LOGIN
  /\ \E r \in Entries(result.routes.protected) : r.expectedRedirect = LOGIN

\* C15, where it breaks in an adapter: the redirect is the constant '/login'
C15_AdapterRedirectIsConstant ==
  Returned /\ adapter.kind \in {"express", "react", "nextjs"} =>
    \A r \in Entries(result.routes.protected) : r.expectedRedirect = LOGIN

(***************************************************************************)
(* Properties of the api bucket.                                           *)
(***************************************************************************)
\* the path matches the public-API allow-list
PublicApiPath(url) ==
  \E p \in { <<"/","a","p","i","/","h","e","a","l","t","h">>, <<"/","a","p","i","/","s","t","a","t","u","s">>, <<"/","a","p","i","/","p","u","b","l","i","c">> } : includes(url, p)

\* the api routes of the returned RouteSet that the classifier put there
ClassifiedApi == { r \in Entries(result.routes.api) : "file" \in r.keys }

\* C16: for every route classified into the api bucket, requiresAuth is false
\* exactly when the path matches the public-API allow-list and true otherwise
\* (non-GET routes outside the API prefix included), and expectedStatus is 401
\* when requiresAuth is true and 200 when it is false.
C16_ApiRequiresAuth ==
  Returned =>
    \A r \in ClassifiedApi :
      /\ {"requiresAuth", "expectedStatus"} \subseteq r.keys
      /\ r.requiresAuth = ~ PublicApiPath(r.url)
      /\ r.expectedStatus = IF r.requiresAuth THEN 401 ELSE 200

\* C16, where the claim breaks: an Express route with a method other than GET
\* and a path outside '/api' is in the api bucket with requiresAuth false
C16_NonGetWithoutAuth ==
  /\ Returned
  /\ adapter.kind = "express"
  /\ \E r \in ClassifiedApi :
       /\ r.method # GET
       /\ ~ startsWith(r.url, <<"/","a","p","i">>)
       /\ ~ PublicApiPath(r.url)
       /\ r.requiresAuth = FALSE
       /\ r.expectedStatus = 200

\* the second half of the claim, for the Express classifier
C16_StatusFollowsRequiresAuth ==
  Returned /\ adapter.kind = "express" =>
    \A r \in ClassifiedApi : r.expectedStatus = IF r.requiresAuth THEN 401 ELSE 200

(***************************************************************************)
(* The classifiers of the adapters, each on routes of its own.             *)
(***************************************************************************)
MaxClassified == 3

Classifiers == {"express", "react", "nextjs", "scanner"}

\* the paths the classifiers are given
ClassUrls ==
  { <<"/","a","b","o","u","t">>, <<"/","s","i","g","n","i","n">>, <<"/","a","d","m","i","n">>, <<"/","a","u","t","h","o","r","s">>, <<"/","p","r","o","t","e","c","t","e","d">>, <<"/","m","y","a","c","c","o","u","n","t">>,
    <<"/","a","p","i","/","u","s","e","r","s">> }

\* the route object the adapter hands to its classifier for a path and a method
RawRoute(by, url, method) ==
  CASE by = "express" ->
         RouteObject(url, method, <<"f">>, "", {"url", "method", "file", "title", "framework"})
    [] by = "react" ->
         RouteObject(url, NoText, <<"f">>, "", {"url", "title", "file", "component"})
    [] by = "nextjs" ->
         RouteObject(url, NoText, <<"f">>, "page", {"url", "title", "file", "type"})
    [] by = "scanner" ->
         RouteObject(url, NoText, <<"f">>, "static", {"url", "title", "file", "type"})

\* the classifier of one adapter on one route, with the RouteSet it pushes to
ClassifyOne(by, route, rs) ==
  CASE by = "express" -> Express_categorizeExpressRoute(route, rs)
    [] by = "react" -> React_categorizeRoute(route, rs)
    [] by = "nextjs" -> Nextjs_pushPage(rs, route.url, route.file, route.keys)
    [] by = "scanner" -> Scanner_categorizeRoutes(<< route >>, rs)

\* the bucket that grew between two RouteSets, and its last entry
GrownBucket(before, after) ==
  CHOOSE b \in Buckets : Len(after[b]) = Len(before[b]) + 1

LastOf(list) == list[Len(list)]

ClassInit == ScanInit("idle") /\ NormIdle /\ ClassIdle /\ OneTask /\ NoProject /\ ScannedOnce

Classify(by, url, method) ==
  /\ cBy \in {"none", by}
  /\ getTotalRoutes(cRoutes) < MaxClassified
  /\ by # "express" => method = GET
  /\ LET raw == RawRoute(by, url, method)
         after == ClassifyOne(by, raw, cRoutes)
         b == GrownBucket(cRoutes, after)
     IN /\ cRoutes' = after
        /\ cLast' = [raw |-> raw, bucket |-> b, entry |-> LastOf(after[b])]
  /\ cBy' = by
  /\ UNCHANGED <<scanVars, normVars, taskVars, tests, first>>

ClassNext ==
  \E by \in Classifiers, url \in ClassUrls, method \in {GET, POST} : Classify(by, url, method)

ClassSpec == ClassInit /\ [][ClassNext]_vars

(***************************************************************************)
(* Properties of the classifiers.                                          *)
(***************************************************************************)
Classified == cBy # "none"

ProtectedWords ==
  { <<"d","a","s","h","b","o","a","r","d">>, <<"a","d","m","i","n">>, <<"p","r","o","f","i","l","e">>, <<"s","e","t","t","i","n","g","s">>, <<"a","c","c","o","u","n","t">>, <<"u","s","e","r">>,
    <<"m","a","n","a","g","e","m","e","n","t">>, <<"p","r","i","v","a","t","e">>, <<"s","e","c","u","r","e">>, <<"a","u","t","h">> }

\* C17: a route that is not classified api is in the protected bucket if and
\* only if its path contains, as a case-insensitive substring, one of
\* dashboard, admin, profile, settings, account, user, management, private,
\* secure, auth; the same set decides for every adapter.
C17_SameKeywordsDecide ==
  Classified /\ cLast.bucket # "api" =>
    ( cLast.bucket = "protected"
        <=> \E w \in ProtectedWords : includes(toLowerCase(cLast.raw.url), w) )

\* C17, where the claim breaks: the React classifier and the generic one put
\* '/authors' in the public bucket
C17_AuthIsPublic ==
  /\ cBy \in {"react", "scanner"}
  /\ cLast.raw.url = <<"/","a","u","t","h","o","r","s">>
  /\ cLast.bucket = "public"

\* the Express and the Next.js classifier put the same path in the protected
\* bucket
C17_AuthIsProtected ==
  cBy \in {"express", "nextjs"} /\ cLast.raw.url = <<"/","a","u","t","h","o","r","s">> /\ cLast.raw.method # POST
    => cLast.bucket = "protected"

\* C18: classifying a route gives the same classified route (bucket,
\* requiresAuth, expectedStatus or expectedRedirect) whichever routes were
\* classified before it.
C18_SameAsClassifiedAlone ==
  Classified =>
    LET alone == ClassifyOne(cBy, cLast.raw, EmptyRoutes)
    IN /\ Len(alone[cLast.bucket]) = 1
       /\ cLast.entry = alone[cLast.bucket][1]

\* C18, where the claim breaks: the generic classifier gives '/admin' the
\* redirect '/signin' after it has classified '/signin'
C18_RedirectFollowsEarlierRoute ==
  /\ cBy = "scanner"
  /\ cLast.raw.url = <<"/","a","d","m","i","n">>
  /\ cLast.bucket = "protected"
  /\ cLast.entry.expectedRedirect = <<"/","s","i","g","n","i","n">>
  /\ LastOf(ClassifyOne(cBy, cLast.raw, EmptyRoutes).protected).expectedRedirect = LOGIN

\* the classifiers of the adapters do not look at the RouteSet
C18_AdaptersClassifyAlike ==
  Classified /\ cBy # "scanner" =>
    cLast.entry = LastOf(ClassifyOne(cBy, cLast.raw, EmptyRoutes)[cLast.bucket])

(***************************************************************************)
(* Two ProjectScanner instances whose scans run as interleaved tasks.      *)
(***************************************************************************)
\* the instance whose task is running
This ==
  [pc |-> pc, packageJson |-> packageJson, framework |-> framework, routes |-> routes,
   adapter |-> adapter, fsLog |-> fsLog, result |-> result]

Finished(inst) == inst.pc \in {"done", "rejected"}

\* this.routes, had the RouteSet been one object shared by the instances
Scanner_sharedRoutes(own, others) == others

\* this.routes when a task resumes: the field of its own instance, whatever
\* the task that ran meanwhile left in the field of the other instance
Scanner_thisRoutes(own, others) == own

\* the projects of the two scans: an Express one, a React Router one, and
\* directories without package.json
TwoManifests ==
  { Manifest(<<Dep("express", V1)>>, <<>>, TRUE, NoText, <<"n","o","d","e"," ","s","e","r","v","e","r",".","j","s">>),
    Manifest(<<Dep("react", V1), Dep("react-router-dom", V1)>>, <<>>, TRUE, NoText,
             <<"r","e","a","c","t","-","s","c","r","i","p","t","s"," ","s","t","a","r","t">>) }

TwoExpressReads ==
  { Readable(<< Call(<<"a","p","p">>, <<"g","e","t">>, <<"/">>), Call(<<"a","p","p">>, <<"g","e","t">>, <<"/","a","d","m","i","n">>) >>),
    Readable(<< Call(<<"a","p","p">>, <<"p","o","s","t">>, <<"/","a","p","i","/","a","u","t","h","/","l","o","g","i","n">>) >>) }

TwoReactReads == { Readable(<< Element(<<"/">>), Element(<<"/","d","a","s","h","b","o","a","r","d">>) >>) }

TwoHtmlGlobs == { <<>>, << <<"a","d","m","i","n","/","i","n","d","e","x",".","h","t","m","l">>, <<"s","i","g","n","i","n",".","h","t","m","l">> >> }

TwoInit ==
  /\ ScanInit("loadPackageJson")
  /\ NormIdle /\ ClassIdle /\ NoProject /\ ScannedOnce
  /\ self = 1
  /\ other = [NoInstance EXCEPT !.pc = "loadPackageJson"]

\* the running task is at an await (or has finished) and the event loop
\* resumes the task of the other instance
Switch ==
  /\ ~ Finished(other)
  /\ pc' = other.pc
  /\ packageJson' = other.packageJson
  /\ framework' = other.framework
  /\ routes' = Scanner_thisRoutes(other.routes, routes)
  /\ adapter' = other.adapter
  /\ fsLog' = other.fsLog
  /\ result' = other.result
  /\ other' = This
  /\ self' = 3 - self
  /\ UNCHANGED <<normVars, classVars, tests, first>>

TwoNext ==
  \/ LoadNoPackageJson
  \/ \E m \in TwoManifests : LoadPackageJson(m)
  \/ \E present \in {{}, {"public"}} : DetectFramework(present)
  \/ StartReact(TRUE)
  \/ \E read \in TwoReactReads : ReactReadFile(read)
  \/ ReactFinish
  \/ StartExpress
  \/ \E read \in TwoExpressReads : ExpressReadFile(read)
  \/ ExpressFinish
  \/ \E htmlFiles \in TwoHtmlGlobs, hasApiDirectory \in BOOLEAN :
       ScanGenericRoutes(htmlFiles, <<>>, "none", hasApiDirectory)
  \/ Return
  \/ Switch

TwoSpec == TwoInit /\ [][TwoNext]_vars

(***************************************************************************)
(* Properties of two interleaved scans.                                    *)
(***************************************************************************)
\* what ExpressFramework.scanRoutes returns for the files read, in their order
RECURSIVE AloneExpress(_, _, _)
AloneExpress(files, k, rs) ==
  IF k > Len(files)
  THEN (IF getTotalRoutes(rs) = 0 THEN Express_addDefaultExpressRoutes(rs) ELSE rs)
  ELSE AloneExpress(
         files, k + 1,
         IF files[k].ok
         THEN Express_categorizeAll(Express_extractExpressRoutes(files[k].content, FileName(k)), rs)
         ELSE rs)

\* what ReactFramework.scanRouterRoutes leaves in routes for the files read
RECURSIVE AloneReact(_, _, _)
AloneReact(files, k, acc) ==
  IF k > Len(files)
  THEN (IF acc.foundRoutes = {} THEN React_addDefaultRoutes(acc.routes) ELSE acc.routes)
  ELSE AloneReact(
         files, k + 1,
         IF files[k].ok
         THEN React_forEachExtracted(React_extractRoutesFromFile(files[k].content, FileName(k)), acc)
         ELSE acc)

\* the value scan() resolves to when it is the only task, for the package.json
\* and the answers of the file system in log
AloneResult(pj, log) ==
  LET fw == Scanner_detectFramework(pj, log.present)
      rs == CASE fw.name = "express" -> AloneExpress(log.files, 1, EmptyRoutes)
              [] fw.name = "react-router" ->
                   AloneReact(log.files, 1, [routes |-> EmptyRoutes, foundRoutes |-> {}])
              [] OTHER ->
                   Scanner_scanGenericRoutes(EmptyRoutes, log.htmlFiles, log.componentFiles,
                                             log.thrown, "api" \in log.present)
  IN [kind |-> "value", framework |-> fw, routes |-> rs,
      baseURL |-> Scanner_detectBaseUrl(pj), loginURL |-> Scanner_detectLoginUrl(rs)]

\* C19: each of two scans that run as interleaved tasks on separate
\* ProjectScanner instances returns what it returns when it runs alone on the
\* same project: nothing one scan writes is read by the other.
C19_SameAsAlone ==
  \A inst \in {This, other} :
    inst.result.kind = "value" =>
      inst.result = AloneResult(inst.packageJson, inst.fsLog)

\* C19, its case: the scan of an Express project has returned the routes of its
\* files while the scan of another project, begun before, is suspended in the
\* middle of its own loop over files
C19_ReturnedWhileOtherSuspended ==
  /\ result.kind = "value"
  /\ framework.name = "express"
  /\ Positions(result.routes) # {}
  /\ other.pc = "reactFiles"
  /\ Len(other.fsLog.files) = 1
  /\ Positions(other.adapter.routes) # {}

(***************************************************************************)
(* Properties of the loops over files.                                     *)
(***************************************************************************)
\* the place of a route's file in the enumeration of the glob
FileIndex(r) == CHOOSE k \in 1..9 : FileName(k) = r.file

\* the entries of a bucket that were read from a file, in the bucket's order
Discovered(list) == SelectSeq(list, LAMBDA r : "file" \in r.keys)

\* C20: the Express and the React adapter finish extracting and classifying
\* file k before they read file k+1: no bucket holds a route of a file the
\* loop has not reached, and each bucket lists its routes in the order in
\* which the glob enumerated their files.
C20_FileOrder ==
  adapter.kind \in {"express", "react"} =>
    \A b \in Buckets :
      LET list == Discovered(adapter.routes[b])
      IN /\ \A i \in DOMAIN list : FileIndex(list[i]) <= Len(fsLog.files)
         /\ \A i, j \in DOMAIN list : i < j => FileIndex(list[i]) <= FileIndex(list[j])

\* C20, its case: scan() has returned a bucket that holds a route of the first
\* file followed by a route of the second
C20_TwoFilesInOneBucket ==
  /\ Returned
  /\ adapter.kind \in {"express", "react"}
  /\ \E b \in Buckets :
       \E i, j \in DOMAIN result.routes[b] :
         /\ i < j
         /\ result.routes[b][i].file = FileName(1)
         /\ result.routes[b][j].file = FileName(2)

(***************************************************************************)
(* Properties of a failed file read.                                       *)
(***************************************************************************)
\* the files the loop has read so far, and those among them that were readable
FilesRead == DOMAIN fsLog.files

ReadableFiles == { k \in FilesRead : fsLog.files[k].ok }

\* rs holds every route the adapter extracted from the readable files: for
\* Express each (method, url) of a file as an entry of that file, for React
\* each path as the url of an entry
HoldsExtracted(rs) ==
  LET entries == Entries(AllRoutes(rs))
  IN \A k \in ReadableFiles :
       IF adapter.kind = "express"
       THEN LET extracted == ExpressExtracted(k)
            IN \A i \in DOMAIN extracted :
                 \E e \in entries : /\ e.url = extracted[i].url
                                    /\ e.method = extracted[i].method
                                    /\ e.file = FileName(k)
       ELSE \A i \in DOMAIN fsLog.files[k].content :
              \E e \in entries : e.url = fsLog.files[k].content[i].path

\* rs holds no route of a file whose read failed
HoldsNothingOfFailed(rs) ==
  \A k \in FilesRead \ ReadableFiles :
    \A e \in Entries(AllRoutes(rs)) : e.file # FileName(k)

\* C21: when reading a source file fails during a React or Express scan, that
\* file contributes no route, the routes extracted from every other file are
\* in the result, and scan() does not reject.
C21_FailedReadSkipped ==
  adapter.kind \in {"express", "react"} =>
    /\ HoldsExtracted(adapter.routes) /\ HoldsNothingOfFailed(adapter.routes)
    /\ pc # "rejected"
    /\ Returned => HoldsExtracted(result.routes) /\ HoldsNothingOfFailed(result.routes)

\* C21, its case: the first file gave routes, the read of the second failed,
\* and scan() has returned the routes of the first
C21_SecondReadFailed ==
  /\ Returned
  /\ adapter.kind \in {"express", "react"}
  /\ Len(fsLog.files) = 2
  /\ fsLog.files[1].ok /\ ~ fsLog.files[2].ok
  /\ \E e \in Entries(AllRoutes(result.routes)) : e.file = FileName(1)

(***************************************************************************)
(* Properties of the degraded detection and of the dispatch.               *)
(***************************************************************************)
\* scanRoutes has chosen its case
Dispatched == adapter.kind # "none"

\* the framework names without an adapter of their own
GenericNames ==
  {"static-site", "unknown", "vue-router", "nuxt", "vite-react", "create-react-app", "vue"}

\* C22, as stated: without a manifest the framework is 'static-site' if an
\* app, source or public directory is present and 'unknown' otherwise.
C22_StaticSiteByDirectory ==
  Detected /\ ~ packageJson.present =>
    framework.name =
      IF fsLog.present \cap {"app", "src", "public"} # {} THEN "static-site" ELSE "unknown"

\* C22, amended: without a manifest the framework is 'static-site' if
\* index.html, a public directory or a src directory is present and 'unknown'
\* otherwise; and every framework value without an adapter of its own
\* (static-site, unknown, vue-router, nuxt, vite-react, create-react-app, vue),
\* and no other, is dispatched to the generic scan, which does not reject.
C22_StaticSiteByIndexPublicSrc ==
  /\ Detected /\ ~ packageJson.present =>
       framework.name =
         IF fsLog.present \cap {"index.html", "src", "public"} # {}
         THEN "static-site" ELSE "unknown"
  /\ Detected => framework.name \in GenericNames \cup {"nextjs", "react", "react-router", "express"}
  /\ Dispatched => (adapter.kind = "generic" <=> framework.name \in GenericNames)
  /\ Dispatched /\ adapter.kind = "generic" => pc = "scanned"

\* C22, its case: a directory that holds index.html and no package.json has
\* been detected as a static site and scanned by the generic scan
C22_IndexHtmlOnly ==
  /\ ~ packageJson.present
  /\ fsLog.present = {"index.html"}
  /\ framework.name = "static-site"
  /\ adapter.kind = "generic"
  /\ pc = "scanned"

\* a declared framework without an adapter has been scanned by the generic scan
C22_NuxtScannedGenerically == framework.name = "nuxt" /\ adapter.kind = "generic"

(***************************************************************************)
(* Properties of the base URL.                                             *)
(***************************************************************************)
\* the known ports, in the order detectBaseUrl asks for them
KnownPorts == << <<"3","0","0","0">>, <<"8","0","8","0">>, <<"5","1","7","3">> >>

Localhost(port) == <<"h","t","t","p",":","/","/","l","o","c","a","l","h","o","s","t",":">> \o port

\* C23, as stated: config.baseURL is http://localhost:<port> for a known port
\* that occurs in the text of the dev script or of the start script, and
\* http://localhost:3000 without a manifest, without scripts, or when neither
\* script mentions a known port.
C23_PortOfDevOrStart ==
  Returned =>
    LET mentioned == { i \in DOMAIN KnownPorts :
                         /\ packageJson.present /\ packageJson.hasScripts
                         /\ \/ includes(packageJson.dev, KnownPorts[i])
                            \/ includes(packageJson.start, KnownPorts[i]) }
    IN IF mentioned = {} THEN result.baseURL = Localhost(KnownPorts[1])
       ELSE result.baseURL \in { Localhost(KnownPorts[i]) : i \in mentioned }

\* C23, amended: the script looked at is the dev script, and the start
\* script only when there is no dev script; config.baseURL names the first
\* of 3000, 8080, 5173 that occurs in its text, and 3000 without a manifest,
\* without scripts or when that script mentions none of them.
C23_PortOfDevElseStart ==
  Returned =>
    LET script == IF packageJson.dev # NoText THEN packageJson.dev ELSE packageJson.start
        mentioned == { i \in DOMAIN KnownPorts :
                         /\ packageJson.present /\ packageJson.hasScripts
                         /\ includes(script, KnownPorts[i]) }
    IN result.baseURL =
         IF mentioned = {} THEN Localhost(KnownPorts[1])
         ELSE Localhost(KnownPorts[CHOOSE i \in mentioned : \A j \in mentioned : i <= j])

\* C23, its case: the dev script names no port, the start script names 8080,
\* and the base URL is the default
C23_StartScriptNotRead ==
  /\ Returned
  /\ packageJson.dev # NoText
  /\ includes(packageJson.start, <<"8","0","8","0">>)
  /\ result.baseURL = <<"h","t","t","p",":","/","/","l","o","c","a","l","h","o","s","t",":","3","0","0","0">>

\* a port other than the default is returned too
C23_PortsReturned ==
  /\ Returned
  /\ result.baseURL = <<"h","t","t","p",":","/","/","l","o","c","a","l","h","o","s","t",":","5","1","7","3">>

(***************************************************************************)
(* add-route: addRoute(type, url, name) on the generated test project.     *)
(***************************************************************************)
MaxCalls == 2

RouteTypes == {"public", "protected", "api"}

\* an entry of a route file; keys are the properties the object has
Entry(url, title, keys, method, requiresAuth, expectedStatus, expectedRedirect) ==
  [url |-> url, title |-> title, keys |-> keys, method |-> method,
   requiresAuth |-> requiresAuth, expectedStatus |-> expectedStatus,
   expectedRedirect |-> expectedRedirect]

\* routeData of addRoute
RouteData(type, url, name) ==
  CASE type = "protected" ->
         Entry(url, name, {"url", "title", "requiresAuth", "expectedRedirect"},
               NoText, TRUE, 0, LOGIN)
    [] type = "api" ->
         Entry(url, name, {"url", "title", "method", "requiresAuth", "expectedStatus"},
               GET, TRUE, 401, NoText)
    [] OTHER -> Entry(url, name, {"url", "title"}, NoText, FALSE, 0, NoText)

\* what stands for the text String.prototype.replace puts in place of '$&':
\* the whole statement 'export const xRoutes = [...];' it matched
MATCHED == "$&"

\* content.replace(routesMatch[0], replacement): the replacement patterns of
\* the text that is written, '$$' becoming '$' and '$&' the matched statement
RECURSIVE Substitute(_)
Substitute(s) ==
  IF Len(s) < 2 THEN s
  ELSE IF s[1] = "$" /\ s[2] = "$" THEN << "$" >> \o Substitute(SubSeq(s, 3, Len(s)))
  ELSE IF s[1] = "$" /\ s[2] = "&" THEN << MATCHED >> \o Substitute(SubSeq(s, 3, Len(s)))
  ELSE << s[1] >> \o Substitute(Tail(s))

\* the entries as they stand in the file after JSON.stringify and replace
WrittenEntry(e) ==
  [e EXCEPT !.url = Substitute(@), !.title = Substitute(@),
            !.method = Substitute(@), !.expectedRedirect = Substitute(@)]

WrittenEntries(entries) == [i \in DOMAIN entries |-> WrittenEntry(entries[i])]

\* the matched statement, which holds quotes and line ends, stands inside a
\* string of the array: JSON.parse will throw on it
Unparsable(entries) ==
  \E i \in DOMAIN entries :
    \E t \in {entries[i].url, entries[i].title} : \E k \in DOMAIN t : t[k] = MATCHED

\* the urls and names add-route is called with
AddUrls == { <<"/","a">>, <<"/","$","$">> }

AddNames == { <<"A">>, <<"5","$","$">>, <<"$","&">> }

\* the entry the generated files start with
FirstEntry(type) == RouteData(type, ROOT, <<"H","o","m","e">>)

\* the test projects add-route may find: none, or one with some of the three
\* route files, each holding one route
AddInit ==
  /\ ScanInit("idle")
  /\ NormIdle /\ ClassIdle /\ OneTask /\ ScannedOnce
  /\ \/ tests = NoTests
     \/ \E have \in SUBSET RouteTypes :
          LET files == [t \in RouteTypes |->
                          IF t \in have THEN RouteFile(<< FirstEntry(t) >>) ELSE NoFile]
          IN tests = [NoTests EXCEPT !.exists = TRUE, !.files = files, !.before = files]

addRoute(type, url, name) ==
  /\ tests.calls < MaxCalls
  /\ LET file == tests.files[type]
         call(outcome) == [type |-> type, url |-> url, name |-> name, outcome |-> outcome]
         done(files, outcome) ==
           tests' = [tests EXCEPT !.files = files, !.before = tests.files,
                                  !.calls = @ + 1, !.last = call(outcome)]
     IN IF ~ tests.exists THEN done(tests.files, "exit")
        ELSE IF ~ file.present THEN done(tests.files, "not found")
        ELSE IF file.corrupt THEN done(tests.files, "exit")
        ELSE LET written == WrittenEntries(Append(file.routes, RouteData(type, url, name)))
             IN done([tests.files EXCEPT ![type] =
                        [present |-> TRUE, corrupt |-> Unparsable(written), routes |-> written]],
                     "added")
  /\ UNCHANGED <<scanVars, normVars, classVars, taskVars, first>>

AddNext ==
  \E type \in RouteTypes, url \in AddUrls, name \in AddNames : addRoute(type, url, name)

AddSpec == AddInit /\ [][AddNext]_vars

(***************************************************************************)
(* Properties of add-route.                                                *)
(***************************************************************************)
Called == tests.last.type # "none"

\* C24: add-route appends exactly one entry with the given url and title
\* (and the properties of its type) at the end of the array of the chosen
\* type, leaves every earlier entry of that array and the files of the other
\* types unchanged, and modifies no file when the test project or the route
\* file of that type is missing.
C24_AppendsOneEntry ==
  Called =>
    LET type == tests.last.type
    IN /\ \A t \in RouteTypes \ {type} : tests.files[t] = tests.before[t]
       /\ IF tests.exists /\ tests.before[type].present /\ ~ tests.before[type].corrupt
          THEN /\ tests.files[type].present /\ ~ tests.files[type].corrupt
               /\ tests.files[type].routes =
                    Append(tests.before[type].routes,
                           RouteData(type, tests.last.url, tests.last.name))
          ELSE tests.files[type] = tests.before[type]

\* C24, where the claim breaks: the name given was '5$$' and the entry
\* appended has the title '5$'
C24_DollarLost ==
  /\ Called
  /\ tests.last.outcome = "added"
  /\ tests.last.name = <<"5","$","$">>
  /\ tests.files[tests.last.type].routes[Len(tests.files[tests.last.type].routes)].title = <<"5","$">>

\* what holds of every call: the files of the other types are left alone, no
\* file changes when the project or the file is missing, and a url and a name
\* without '$' are appended as given
C24_FrameAndPlainText ==
  Called =>
    LET type == tests.last.type
        plain(t) == \A k \in DOMAIN t : t[k] # "$"
        list == tests.files[type].routes
    IN /\ \A t \in RouteTypes \ {type} : tests.files[t] = tests.before[t]
       /\ ~ tests.exists \/ ~ tests.before[type].present
            => tests.files[type] = tests.before[type]
       /\ tests.last.outcome = "added"
            => /\ Len(list) = Len(tests.before[type].routes) + 1
               /\ plain(tests.last.url) /\ plain(tests.last.name)
                    => list[Len(list)] = RouteData(type, tests.last.url, tests.last.name)

(***************************************************************************)
(* Properties of the routes the Express extractor emits.                   *)
(***************************************************************************)
Express_emittedMethods ==
  { toUpperCase(m) : m \in Express_chainMethods }

\* the statements of the k-th file read
Statements(k) == { fsLog.files[k].content[i] : i \in DOMAIN fsLog.files[k].content }

\* route r is the registration st: the registered method in upper case (GET
\* for use) and the normalised path literal
Registers(r, st) ==
  /\ r.url = Express_normalizeExpressRoutePath(st.path)
  /\ r.method = (IF toUpperCase(st.method) = M_USE THEN GET ELSE toUpperCase(st.method))

\* route r is the registration st with the two captures exchanged: the path
\* literal in upper case as the method, the method name as the path
Exchanges(r, st) ==
  /\ st.form = "call" /\ toLowerCase(st.recv) \in Express_appNames
  /\ r.url = Express_normalizeExpressRoutePath(st.method)
  /\ r.method = toUpperCase(st.path)

\* C25: every route the Express extractor emits for a file has a method in
\* {GET, POST, PUT, PATCH, DELETE, ALL} and, as URL, the normalised form of a
\* path literal that is the first argument of a registration in that file,
\* the method being the registered one in upper case.
C25_MethodAndPathOfRegistration ==
  adapter.kind = "express" =>
    \A k \in ReadableFiles : \A i \in DOMAIN ExpressExtracted(k) :
      LET r == ExpressExtracted(k)[i]
      IN /\ r.method \in Express_emittedMethods
         /\ \E st \in Statements(k) : Registers(r, st)

\* C25, where the claim breaks: app.post('/api/auth/login') was read and a
\* route with the URL '/post' and the method '/API/AUTH/LOGIN' was emitted
C25_MethodNameAsUrl ==
  /\ adapter.kind = "express"
  /\ \E k \in ReadableFiles :
       /\ Call(<<"a","p","p">>, <<"p","o","s","t">>, <<"/","a","p","i","/","a","u","t","h","/","l","o","g","i","n">>) \in Statements(k)
       /\ \E i \in DOMAIN ExpressExtracted(k) :
            /\ ExpressExtracted(k)[i].url = <<"/","p","o","s","t">>
            /\ ExpressExtracted(k)[i].method = <<"/","A","P","I","/","A","U","T","H","/","L","O","G","I","N">>

\* what holds of every emitted route: it is a registration of the file, or a
\* registration on app, server, router or express with the captures exchanged;
\* and every registration of the file with a path that normalises to a URL is
\* emitted as the claim says
C25_RegisteredOrExchanged ==
  adapter.kind = "express" =>
    \A k \in ReadableFiles :
      /\ \A i \in DOMAIN ExpressExtracted(k) :
           \E st \in Statements(k) :
             Registers(ExpressExtracted(k)[i], st) \/ Exchanges(ExpressExtracted(k)[i], st)
      /\ \A st \in Statements(k) :
           /\ Express_normalizeExpressRoutePath(st.path) # NoText
           /\ ~ (toUpperCase(st.method) = M_USE /\ ~ includes(st.path, <<"/">>))
           => \E i \in DOMAIN ExpressExtracted(k) : Registers(ExpressExtracted(k)[i], st)

\* the use(path, ...) registrations of the k-th file read whose URL no other
\* registration of the file has
UseMounts(k) ==
  { st \in Statements(k) :
      /\ st.form = "call" /\ toUpperCase(st.method) = M_USE
      /\ \A o \in Statements(k) :
           toUpperCase(o.method) # M_USE
             => Express_normalizeExpressRoutePath(o.path)
                  # Express_normalizeExpressRoutePath(st.path) }

\* the routes the extractor emitted for the k-th file with the URL of st
EmittedFor(k, st) ==
  { i \in DOMAIN ExpressExtracted(k) :
      ExpressExtracted(k)[i].url = Express_normalizeExpressRoutePath(st.path) }

\* a path is endpoint-like: it has an API segment, or more than one segment
EndpointLike(path) ==
  LET url == Express_normalizeExpressRoutePath(path)
  IN \/ includes(url, <<"/","a","p","i">>)
     \/ Cardinality({ i \in DOMAIN url : url[i] = "/" }) > 1

\* C26: a registration made with use(path, ...) is emitted with method GET,
\* and only when its path is endpoint-like; a use() mount on any other path,
\* such as a single-segment path outside the API, emits no route.
C26_UseOnlyEndpointLike ==
  adapter.kind = "express" =>
    \A k \in ReadableFiles : \A st \in UseMounts(k) :
      /\ \A i \in EmittedFor(k, st) : ExpressExtracted(k)[i].method = GET
      /\ EmittedFor(k, st) # {} <=> EndpointLike(st.path)

\* C26, where the claim breaks: app.use('/static', ...) was read and the
\* route (GET, '/static') was emitted
C26_SingleSegmentMountEmitted ==
  /\ adapter.kind = "express"
  /\ \E k \in ReadableFiles :
       /\ Call(<<"a","p","p">>, <<"u","s","e">>, <<"/","s","t","a","t","i","c">>) \in UseMounts(k)
       /\ ~ EndpointLike(<<"/","s","t","a","t","i","c">>)
       /\ \E i \in DOMAIN ExpressExtracted(k) :
            /\ ExpressExtracted(k)[i].url = <<"/","s","t","a","t","i","c">>
            /\ ExpressExtracted(k)[i].method = GET

\* what holds of every use() mount: it is emitted, with method GET, exactly
\* when the path literal contains a slash
C26_UseWithSlashEmitted ==
  adapter.kind = "express" =>
    \A k \in ReadableFiles : \A st \in UseMounts(k) :
      /\ \A i \in EmittedFor(k, st) : ExpressExtracted(k)[i].method = GET
      /\ EmittedFor(k, st) # {} <=> includes(st.path, <<"/">>)

(***************************************************************************)
(* A page file at the root of a router directory, and index files.         *)
(***************************************************************************)
\* the URL the claim gives for the input path, NoText where it gives none
RootOrIndexUrl(f, pieces) ==
  IF f \in {"app", "appSrc"} /\ pieces = << <<"p","a","g","e",".","t","s","x">> >> THEN ROOT
  ELSE IF f \in {"pages", "pagesSrc"} /\ pieces = << <<"i","n","d","e","x",".","j","s">> >> THEN ROOT
  ELSE IF f \in {"pages", "pagesSrc"} /\ pieces = << <<"a","/">>, <<"i","n","d","e","x",".","j","s">> >> THEN <<"/","a">>
  ELSE IF f \in {"pages", "pagesSrc"} /\ pieces = << <<"a","/">>, <<"s","e","t","t","i","n","g","s","/">>, <<"i","n","d","e","x",".","j","s">> >>
       THEN <<"/","a","/","s","e","t","t","i","n","g","s">>
  ELSE NoText

\* C27: a page file at the root of a router directory maps to the root URL
\* and an index file to its directory: app/page.* and pages/index.* both
\* normalise to '/', and pages/x/index.* normalises to '/x', in both files
\* that hold NextjsFramework.
C27_RootAndIndex ==
  (nOut # <<>> /\ RootOrIndexUrl(nFn, nIn) # NoText) => nOut[1] = RootOrIndexUrl(nFn, nIn)

\* C27, where the claim breaks: the pages-router normaliser maps 'index.js',
\* the index file of the pages directory, to '/index'
C27_PagesIndexKept ==
  /\ nFn = "pages"
  /\ nIn = << <<"i","n","d","e","x",".","j","s">> >>
  /\ nOut # <<>>
  /\ nOut[1] = <<"/","i","n","d","e","x">>

\* C27, where the claim breaks too: the app-router normaliser of
\* src/core/frameworks/nextjs.js maps 'page.tsx' to '/page.tsx'
C27_AppRootPageKept ==
  /\ nFn = "appSrc"
  /\ nIn = << <<"p","a","g","e",".","t","s","x">> >>
  /\ nOut # <<>>
  /\ nOut[1] = <<"/","p","a","g","e",".","t","s","x">>

\* what holds: an index file below the pages directory maps to its directory
\* in both files, and the app-router normaliser of the other file maps
\* 'page.tsx' to '/'
C27_IndexBelowDirectory ==
  (nOut # <<>> /\ RootOrIndexUrl(nFn, nIn) # NoText
               /\ (Len(nIn) > 1 \/ nFn = "app"))
    => nOut[1] = RootOrIndexUrl(nFn, nIn)

(***************************************************************************)
(* scan() called a second time on the same instance, over the same project.*)
(***************************************************************************)
\* the instance as it stands
Instance ==
  [pc |-> pc, packageJson |-> packageJson, framework |-> framework, routes |-> routes,
   adapter |-> adapter, fsLog |-> fsLog, result |-> result]

\* scan() is called again once the first call has returned: the fields of the
\* instance are what the first call left, the adapters are constructed anew
ScanAgain ==
  /\ pc = "done"
  /\ first = NoInstance
  /\ first' = Instance
  /\ pc' = "loadPackageJson"
  /\ adapter' = NoAdapter
  /\ fsLog' = NoFsLog
  /\ result' = NoResult
  /\ UNCHANGED <<packageJson, framework, routes>>
  /\ UNCHANGED <<normVars, classVars, taskVars, tests>>

\* the project is unchanged: the file system returns to the second scan what
\* it returned to the first, and the same adapter file is loaded
SameProject ==
  LET was == first.fsLog
      read == was.files[Len(fsLog.files) + 1]
  IN \/ was.manifest = "missing" /\ LoadNoPackageJson
     \/ was.manifest = "valid" /\ LoadPackageJson(first.packageJson)
     \/ DetectFramework(was.present \cap Scanner_detectReads(packageJson))
     \/ StartNextjs(first.adapter.copy)
     \/ ScanAppRouter(was.appPages, was.appRoutes)
     \/ ScanPagesRouter(was.pagesFiles)
     \/ \E srcExists \in BOOLEAN :
          /\ StartReact(srcExists)
          /\ fsLog'.present \subseteq was.present /\ fsLog'.absent \subseteq was.absent
     \/ Len(fsLog.files) < Len(was.files) /\ ReactReadFile(read)
     \/ Len(fsLog.files) = Len(was.files) /\ ReactFinish
     \/ StartExpress
     \/ Len(fsLog.files) < Len(was.files) /\ ExpressReadFile(read)
     \/ Len(fsLog.files) = Len(was.files) /\ ExpressFinish
     \/ ScanGenericRoutes(was.htmlFiles, was.componentFiles, was.thrown, "api" \in was.present)
     \/ fsLog = was /\ Return

AgainNext ==
  \/ first = NoInstance /\ Next
  \/ first # NoInstance /\ SameProject
  \/ ScanAgain

AgainSpec == Init /\ [][AgainNext]_vars

\* the second call of scan() has returned
ReturnedAgain == first # NoInstance /\ pc = "done"

\* C28: a second scan() on the same instance over an unchanged project
\* returns a RouteSet equal to the one the first call returned: the routes of
\* the first scan are not accumulated into the second, whatever the framework.
C28_SecondScanEqual ==
  ReturnedAgain => result.routes = first.result.routes

\* C28, where the claim breaks: after the generic scan of a project with
\* index.html the second call returns two entries for it
C28_GenericRoutesTwice ==
  /\ ReturnedAgain
  /\ adapter.kind = "generic"
  /\ fsLog.htmlFiles = << <<"i","n","d","e","x",".","h","t","m","l">> >>
  /\ Len(first.result.routes.public) = 1
  /\ result.routes.public = first.result.routes.public \o first.result.routes.public

\* what holds: with a framework adapter (Next.js, React, Express) the second
\* call returns what the first returned
C28_AdaptersScanAlike ==
  (ReturnedAgain /\ adapter.kind # "generic") => result = first.result

(***************************************************************************)
(* Fabricated and discovered routes.                                       *)
(***************************************************************************)
\* the entries of rs that no scanned file gave: defaults and placeholders
Fabricated(rs) == { e \in Entries(AllRoutes(rs)) : "file" \notin e.keys }

\* C29: the returned RouteSet never mixes fabricated and discovered routes:
\* whenever at least one route was discovered, every entry of the RouteSet
\* comes from a scanned file.
C29_NeverMixed ==
  (Returned /\ first = NoInstance /\ Positions(result.routes) # {})
    => Fabricated(result.routes) = {}

\* C29, where the claim breaks: the generic scan found index.html and an api
\* directory, and returns the route of index.html with the '/api/health'
\* placeholder
C29_PlaceholderWithDiscovered ==
  /\ Returned /\ first = NoInstance
  /\ adapter.kind = "generic"
  /\ fsLog.htmlFiles = << <<"i","n","d","e","x",".","h","t","m","l">> >>
  /\ \E e \in Entries(result.routes.public) : e.file = <<"i","n","d","e","x",".","h","t","m","l">>
  /\ result.routes.api = << Scanner_healthPlaceholder >>

\* C29, where the claim breaks too: the glob of the page components threw
\* after index.html was found, and the fallback home route is returned along
\* with the route of index.html
C29_FallbackWithDiscovered ==
  /\ Returned /\ first = NoInstance
  /\ adapter.kind = "generic"
  /\ fsLog.thrown = "component"
  /\ Positions(result.routes) # {}
  /\ \E e \in Fabricated(result.routes) : e.type = "fallback"

\* what holds: the Next.js, React and Express adapters add their defaults
\* only to a RouteSet without discovered routes, and the generic scan adds its
\* default home route only when no file was found
C29_AdaptersNeverMix ==
  (Returned /\ first = NoInstance /\ Positions(result.routes) # {})
    => /\ adapter.kind # "generic" => Fabricated(result.routes) = {}
       /\ \A e \in Fabricated(result.routes) : e.type # "default"

(***************************************************************************)
(* The login URL and the protected bucket.                                 *)
(***************************************************************************)
\* the entries of the protected bucket with the URL returned as login URL
ProtectedLogin == { e \in Entries(result.routes.protected) : e.url = result.loginURL }

\* C30: the route whose URL scan() returns as config.loginURL is never an
\* entry of the protected bucket.
C30_LoginNotProtected ==
  (Returned /\ first = NoInstance) => ProtectedLogin = {}

\* C30, where the claim breaks: the login URL returned is the URL of a
\* discovered route that is in the protected bucket, expected to redirect to
\* '/login'
C30_LoginUrlIsProtected ==
  /\ Returned /\ first = NoInstance
  /\ \E e \in ProtectedLogin :
       /\ "file" \in e.keys
       /\ "expectedRedirect" \in e.keys
       /\ ContainsOneOf(e, LoginPaths)

\* what holds: a login URL taken from the public bucket is not the URL of a
\* protected entry of the same kind of route, and when the login URL is the
\* URL of a protected entry, no public route names a login path
C30_ProtectedOnlyWithoutPublic ==
  (Returned /\ first = NoInstance /\ ProtectedLogin # {} /\ result.loginURL # LOGIN)
    => FirstWith(result.routes.public, LoginPaths) = 0

====
